---- MODULE Spec2Model ----
(***************************************************************************)
(* Debounce and event-detection engine of MicroPython-ESP32-lib:           *)
(* count-filter debouncing (System/Digital.py), the polled and the         *)
(* interrupt-driven button strategies and the click detectors              *)
(* (Device/Button.py).                                                     *)
(***************************************************************************)
EXTENDS Integers, Sequences, FiniteSets, TLC

VARIABLES
  \* ---- countFiltering_async / countFiltering_sync (one call) ----
  cfTarget,      \* the `target` argument (a Signal)
  cfThreshold,   \* the `threshold` argument
  cfCnt,         \* the local `cnt`
  cfPrev,        \* `cnt` before the latest loop iteration
  cfSamples,     \* the values pin.value() returned to this call, in order
  cfPc,          \* "idle" | "loop" | "returned"
  cfResult       \* the value returned

cfVars == <<cfTarget, cfThreshold, cfCnt, cfPrev, cfSamples, cfPc, cfResult>>

VARIABLES
  \* ---- the input line and one InterruptDrivenStateDebounceButton ----
  line,            \* the level pin.value() returns now
  releasedSignal,  \* released_signal; pressed_signal is its inverse
  currentState,    \* _current_state
  lastState,       \* _last_state
  irqFlag,         \* _irq_flag
  toReleasedFlag,  \* _toReleased_flag
  toPressedFlag,   \* _toPressed_flag
  irqAttached,     \* pin.irq(...) has _irq_handler registered
  timer,           \* _debounce_timer: [task, active]
  irqLhActive,     \* _irq_listenerHandler.active
  agentTasks,      \* _irq_agentHandler tasks created and not yet run
  dbStart,         \* _debounce_handler tasks created and not yet run
  dbHoldRel,       \* _debounce_handler tasks sleeping with _toReleased_flag
  dbHoldPrs,       \* _debounce_handler tasks sleeping with _toPressed_flag
  raised,          \* the last activate()/deactivate() raised AttributeError
  deactivated,     \* deactivate() has been called since the last activate()
  nToReleased,     \* pressed-to-released transitions of the line so far
  nToPressed,      \* released-to-pressed transitions of the line so far
  relTrue,         \* number of True results of isToReleased
  prsTrue,         \* number of True results of isToPressed
  relMark,         \* nToReleased at the latest True result of isToReleased
  prsMark,         \* nToPressed at the latest True result of isToPressed
  dbReads          \* line reads made by _debounce_handler

idVars == <<line, releasedSignal, currentState, lastState, irqFlag,
            toReleasedFlag, toPressedFlag, irqAttached, timer, irqLhActive,
            agentTasks, dbStart, dbHoldRel, dbHoldPrs, raised, deactivated,
            nToReleased, nToPressed, relTrue, prsTrue, relMark, prsMark,
            dbReads>>

idRest == <<currentState, lastState, irqFlag, toReleasedFlag, toPressedFlag,
            irqAttached, timer, irqLhActive, agentTasks, dbStart, dbHoldRel,
            dbHoldPrs, raised, deactivated, nToReleased, nToPressed, relTrue,
            prsTrue, relMark, prsMark, dbReads>>

VARIABLES
  \* ---- one StateDebounceButton on the same line, and one caller of
  \* ---- BaseButton.isClickedOnce / BaseButton.isClicked on it
  sbLast,        \* StateDebounceButton._last_state
  now,           \* Time.current_ms()
  ckOp,          \* "none" | "once" (isClickedOnce) | "clicked" (isClicked)
                 \* | "edge" (isToReleased / isToPressed called directly)
  ckTimeout,     \* the timeout_ms argument
  ckTimes,       \* the times argument
  ckSite,        \* the isToPressed/isToReleased call site the caller is at
  ckPhase,       \* "call" | "inner" (asleep inside isToX) | "sleep" (loop)
  ckEnd,         \* end_ms
  ckI,           \* completed iterations of `for i in range(times-1)`
  ckResult,      \* the value returned
  ckPressOk,     \* the initial isToPressed returned True
  ckDeadline,    \* clock at that return plus timeout_ms
  ckRelSeen,     \* an isToReleased call has returned True since then
  ckSeen,        \* isToReleased/isToPressed True results since then
  ckLastSeenAt,  \* clock at the latest of them
  ckToggles,     \* level changes of the line during the call
  sbReads        \* pin reads made by the isToX call in progress

ckVars == <<sbLast, now, ckOp, ckTimeout, ckTimes, ckSite, ckPhase, ckEnd,
            ckI, ckResult, ckPressOk, ckDeadline, ckRelSeen, ckSeen,
            ckLastSeenAt, ckToggles, sbReads>>

VARIABLES
  sm,             \* StateMechanismButton: the fields of one Button instance
  smLine,         \* level of its pin
  smPressed,      \* pressed_signal
  smReleased,     \* released_signal
  smIrqAttached,  \* a handler is registered with pin.irq
  smPc,           \* position of stopEventHandlers: "run", "deinit", "stopped"
  smEdges,        \* number of level changes of the pin so far
  smEvents,       \* history: the press and release events _debounce_callback
                  \* has flagged, in order
  smLine0,        \* history: level of the pin at construction
  smLongInPress,  \* history: _on_long_press_flag was set since the last
                  \* press event
  smShorts,       \* history: short-press releases since the window last closed
  smClosed,       \* history: the multi-click window has closed at least once
  smCloseBit,     \* history: flips each time the window closes
  smCloseCount,   \* history: smShorts at the last close
  smGets,         \* get_finalized_click_count() calls since the last close
  smGot           \* the value the last of them returned

smCloseHist == <<smShorts, smClosed, smCloseBit, smCloseCount, smGets, smGot>>

smHist == <<smEvents, smLine0, smLongInPress, smCloseHist>>

smVars == <<sm, smLine, smPressed, smReleased, smIrqAttached, smPc, smEdges,
            smHist>>

VARIABLES
  lhKind,         \* Listener/Handler: which of the four compositions
  lhActive,       \* ListenerHandler.active
  lhLoops,        \* the listen() tasks created by activate(): position and
                  \* whether deactivate() was called during the task's life
  lhRunning,      \* dispatched handler invocations still in progress
  lhEvals,        \* history: listener evaluations started
  lhEvalTrue,     \* history: listener evaluations that returned True
  lhInvoked,      \* history: handler invocations (called or dispatched)
  lhStaleEval,    \* history: a task evaluated the listener after deactivate()
  lhLateHandle    \* history: the handler was invoked while active was False

lhVars == <<lhKind, lhActive, lhLoops, lhRunning, lhEvals, lhEvalTrue,
            lhInvoked, lhStaleEval, lhLateHandle>>

VARIABLES
  btPc,           \* button construction: "none", "constructed", "raised"
  btReleased,     \* released_signal of the instance
  btPressed,      \* pressed_signal of the instance
  btInterval,     \* interval_ms of the instance
  btThreshold,    \* threshold of the instance
  btOp,           \* the last level query that returned ("none" before)
  btResult,       \* what it returned
  btReads,        \* how many samples it read
  btStream,       \* the samples the line offered to it
  btState,        \* what the last getState() returned
  btRaised        \* the last query ended with an exception

btVars == <<btPc, btReleased, btPressed, btInterval, btThreshold, btOp,
            btResult, btReads, btStream, btState, btRaised>>

VARIABLES
  chOp,           \* change detection: the function called
  chStart,        \* its start signal
  chEnd,          \* its end signal
  chThreshold,    \* its threshold
  chPc,           \* "idle", "first", "wait", "window", "filter", "returned"
  chReads,        \* the pin values read so far, in order
  chWin,          \* iterations of the for loop of isChanged made
  chCnt,          \* cnt of the countFiltering call of isChangedStably
  chSlept,        \* number of sleeps so far
  chResult        \* the value returned

chVars == <<chOp, chStart, chEnd, chThreshold, chPc, chReads, chWin, chCnt,
            chSlept, chResult>>

VARIABLES
  tpPool,         \* timer pools: the pool this run draws from
  tpAlloc,        \* MachineTimer.ALLOCATIONS: id -> instance (0: no entry)
  tpInst,         \* the MachineTimer instances: state and _timer_id
  tpUsing,        \* IdManager.using
  tpBtn,          \* outcome of the last StateMechanismButton constructor
  tpLast          \* the last operation: whether it found its pool
                  \* exhausted, raised, and left the pool as it was

tpVars == <<tpPool, tpAlloc, tpInst, tpUsing, tpBtn, tpLast>>

VARIABLES
  hdLine,         \* timed flag hold: the level pin.value() returns now
  hdCur,          \* _current_state
  hdLast,         \* _last_state
  hdRel,          \* _toReleased_flag
  hdPrs,          \* _toPressed_flag
  hdHolds,        \* the _debounce_handler tasks asleep in their flag hold:
                  \* the flag each will clear and the ms left of its sleep
  hdRelAge,       \* ms since _toReleased_flag last went from clear to set
  hdPrsAge,       \* ms since _toPressed_flag last went from clear to set
  hdRuns,         \* runs of _debounce_handler so far
  hdTrue,         \* isToReleased/isToPressed calls that returned True
  hdExpired       \* a flag hold has ended and cleared a flag that was set

hdVars == <<hdLine, hdCur, hdLast, hdRel, hdPrs, hdHolds, hdRelAge, hdPrsAge,
            hdRuns, hdTrue, hdExpired>>

VARIABLES
  plLine,         \* released-edge poller: the level pin.value() returns now
  plLast,         \* StateDebounceButton._last_state
  plPhase,        \* "idle" | "inner" (asleep inside isToReleased) | "sleep"
                  \* (the poll loop sleeps until the next listen)
  plEdges,        \* level changes of the line so far
  plHeld,         \* isToReleased calls started since the line went pressed
  plFell,         \* the line went from pressed to released after at least
                  \* MinHeld calls were started during the press
  plGot           \* a call has returned True since the line went released

plVars == <<plLine, plLast, plPhase, plEdges, plHeld, plFell, plGot>>

VARIABLES
  baStrategy,     \* handler registration: the button class of the instance
  baIsActive,     \* BaseButton.isActive
  baPairs,        \* BaseButton.listenerHandler: for each registered pair its
                  \* listener kind, its `active` flag and its listen() tasks
  baTimer,        \* _debounce_timer of an InterruptDrivenStateDebounceButton
  baOp,           \* the last call made on the button
  baRaised        \* that call raised

baVars == <<baStrategy, baIsActive, baPairs, baTimer, baOp, baRaised>>

VARIABLES
  lkLocked,       \* fallback lock: Lock_Implementation._locked
  lkPc,           \* the acquire() call: "idle" | "loop" (timed wait) |
                  \* "loopU" (unbounded wait) | "test" | "done"
  lkWaitflag,     \* its waitflag argument
  lkTimeout,      \* its timeout argument, in units of half a millisecond
  lkTimeoutMs,    \* its local timeout_ms
  lkResult,       \* the value it returned
  lkSlept,        \* sync_ms(1) calls it has made, counted up to MaxSlept
  lkClock         \* the clock in ms, modulo 2

lkVars == <<lkLocked, lkPc, lkWaitflag, lkTimeout, lkTimeoutMs, lkResult,
            lkSlept, lkClock>>

\* (end of variable groups)
\* Frames: the variable groups the actions of one component leave unchanged
extVars == <<smVars, lhVars, btVars, chVars, tpVars, hdVars, plVars, baVars, lkVars>>

vars == <<cfVars, idVars, ckVars, extVars>>

smOthers == <<cfVars, idVars, ckVars, lhVars, btVars, chVars, tpVars, hdVars, plVars, baVars, lkVars>>
lhOthers == <<cfVars, idVars, ckVars, smVars, btVars, chVars, tpVars, hdVars, plVars, baVars, lkVars>>
btOthers == <<cfVars, idVars, ckVars, smVars, lhVars, chVars, tpVars, hdVars, plVars, baVars, lkVars>>
chOthers == <<cfVars, idVars, ckVars, smVars, lhVars, btVars, tpVars, hdVars, plVars, baVars, lkVars>>
tpOthers == <<cfVars, idVars, ckVars, smVars, lhVars, btVars, chVars, hdVars, plVars, baVars, lkVars>>
hdOthers == <<cfVars, idVars, ckVars, smVars, lhVars, btVars, chVars, tpVars, plVars, baVars, lkVars>>
plOthers == <<cfVars, idVars, ckVars, smVars, lhVars, btVars, chVars, tpVars, hdVars, baVars, lkVars>>
baOthers == <<cfVars, idVars, ckVars, smVars, lhVars, btVars, chVars, tpVars, hdVars, plVars, lkVars>>
lkOthers == <<cfVars, idVars, ckVars, smVars, lhVars, btVars, chVars, tpVars, hdVars, plVars, baVars>>
\* (end of frames)

----------------------------------------------------------------------------
\* Bounds of the model
MaxThreshold == 3
MaxSamples == 6
MaxEdges == 2
MaxTasks == 2
MaxTrue == 2
MaxReads == 3
IntervalMs == 2
MaxTimeout == 7
MaxTimes == 2
MaxJitter == 1
MaxNow == 12
MaxToggles == 4
MaxLoops == 2
MaxPending == 2
MaxSmEdges == 4
MaxPollLoops == 2
MaxHandlers == 2
MaxPolls == 3
MaxInterval == 1
MaxStream == 3
MaxBelow == 1
MaxChReads == 6
MaxInst == 5
MaxPlEdges == 4
MaxReg == 2
MaxHolds == 3
MaxGets == 2
MaxLockTimeout == 6
MaxSlept == 4

\* MachineTimer.LIMIT and the size of MachineTimer.idManager
LIMIT == 4
IdManagerSize == 4

----------------------------------------------------------------------------
\* Digital.Signal
HIGH == [value |-> 1, name |-> "HIGH"]
LOW == [value |-> 0, name |-> "LOW"]
Signals == {HIGH, LOW}
PinValues == {0, 1}

\* Signal.__eq__
SignalEq(a, b) == a.value = b.value /\ a.name = b.name

\* the ValueError raised by Signal.inverse, as a value no Signal equals
RaisedValueError == [value |-> -1, name |-> "ValueError"]

inverse_Constant(s) ==
  IF SignalEq(s, HIGH) THEN LOW
  ELSE IF SignalEq(s, LOW) THEN LOW
  ELSE RaisedValueError

\* Signal.inverse
inverse(s) ==
  IF SignalEq(s, HIGH) THEN LOW
  ELSE IF SignalEq(s, LOW) THEN HIGH
  ELSE RaisedValueError

----------------------------------------------------------------------------
\* countFiltering: the loop condition `-threshold < cnt < threshold`
LoopContinues_Early(cnt, threshold) == -threshold < cnt /\ cnt < threshold - 1

LoopContinues_OneSided(cnt, threshold) == cnt < threshold

LoopContinues(cnt, threshold) == -threshold < cnt /\ cnt < threshold

\* countFiltering: the counter update of one iteration
CountUpdate_Decay(cnt, value, target) ==
  IF value = target.value THEN cnt + 1 ELSE cnt - 1

CountUpdate(cnt, value, target) ==
  IF value = target.value
    THEN (IF cnt >= 0 THEN cnt + 1 ELSE 1)
    ELSE (IF cnt <= 0 THEN cnt - 1 ELSE -1)

\* countFiltering: the return expression `cnt >= threshold`
CountResult(cnt, threshold) == cnt >= threshold

CFInit ==
  /\ cfTarget = HIGH
  /\ cfThreshold = 1
  /\ cfCnt = 0
  /\ cfPrev = 0
  /\ cfSamples = <<>>
  /\ cfPc = "idle"
  /\ cfResult = FALSE

\* a call countFiltering(pin, target, threshold, interval_ms): cnt = 0
CFCall(target, threshold) ==
  /\ cfPc = "idle"
  /\ cfTarget' = target
  /\ cfThreshold' = threshold
  /\ cfCnt' = 0
  /\ cfPrev' = 0
  /\ cfSamples' = <<>>
  /\ cfPc' = "loop"
  /\ cfResult' = FALSE
  /\ UNCHANGED idVars
  /\ UNCHANGED extVars
  /\ UNCHANGED ckVars

\* one iteration of the while loop: read the pin, update cnt, sleep
CFStep(value) ==
  /\ cfPc = "loop"
  /\ LoopContinues(cfCnt, cfThreshold)
  /\ Len(cfSamples) < MaxSamples
  /\ cfSamples' = Append(cfSamples, value)
  /\ cfPrev' = cfCnt
  /\ cfCnt' = CountUpdate(cfCnt, value, cfTarget)
  /\ UNCHANGED <<cfTarget, cfThreshold, cfPc, cfResult>>
  /\ UNCHANGED idVars
  /\ UNCHANGED extVars
  /\ UNCHANGED ckVars

\* the loop condition fails: return cnt >= threshold
CFReturn ==
  /\ cfPc = "loop"
  /\ ~LoopContinues(cfCnt, cfThreshold)
  /\ cfPc' = "returned"
  /\ cfResult' = CountResult(cfCnt, cfThreshold)
  /\ UNCHANGED <<cfTarget, cfThreshold, cfCnt, cfPrev, cfSamples>>
  /\ UNCHANGED idVars
  /\ UNCHANGED extVars
  /\ UNCHANGED ckVars

CFNext ==
  \/ \E t \in Signals, th \in 1..MaxThreshold : CFCall(t, th)
  \/ \E v \in PinValues : CFStep(v)
  \/ CFReturn

----------------------------------------------------------------------------
\* Button.State
BOUNCING == "BOUNCING"
RELEASED == "RELEASED"
PRESSED == "PRESSED"

\* BaseButton.__init__: pressed_signal = Signal.inverse(released_signal)
pressedSignal == inverse(releasedSignal)

\* ListenerTimer.AsyncListenerAsyncHandler.__init__ assigns asyncListener,
\* asyncHandler, period_ms, mode and active = True; it never assigns `task`,
\* so the attribute does not exist until activate() has assigned it.
TimerNew == [task |-> "unset", active |-> TRUE]

\* ListenerTimer.AsyncListenerAsyncHandler.deactivate: reading self.task
\* raises AttributeError while the attribute does not exist; otherwise a
\* live task is cancelled, task = None, active = False.
TimerDeactivate(t) ==
  IF t.task = "unset" THEN [raised |-> TRUE, timer |-> t]
  ELSE IF t.task # "None"
    THEN [raised |-> FALSE, timer |-> [task |-> "None", active |-> FALSE]]
    ELSE [raised |-> FALSE, timer |-> t]

\* ListenerTimer.AsyncListenerAsyncHandler.activate: reading self.task raises
\* AttributeError while the attribute does not exist; otherwise a pending
\* countdown is cancelled and a new listen() task is created.
TimerActivate(t) ==
  IF t.task = "unset" THEN [raised |-> TRUE, timer |-> t]
  ELSE [raised |-> FALSE, timer |-> [task |-> "pending", active |-> TRUE]]

\* the state InterruptDrivenStateDebounceButton.__init__ leaves
IDInit(rs, lv) ==
  /\ line = lv
  /\ releasedSignal = rs
  /\ currentState = BOUNCING
  /\ lastState = BOUNCING
  /\ irqFlag = FALSE
  /\ toReleasedFlag = FALSE
  /\ toPressedFlag = FALSE
  /\ irqAttached = TRUE
  /\ timer = TimerNew
  /\ irqLhActive = FALSE
  /\ agentTasks = 0
  /\ dbStart = 0
  /\ dbHoldRel = 0
  /\ dbHoldPrs = 0
  /\ raised = FALSE
  /\ deactivated = FALSE
  /\ nToReleased = 0
  /\ nToPressed = 0
  /\ relTrue = 0
  /\ prsTrue = 0
  /\ relMark = 0
  /\ prsMark = 0
  /\ dbReads = 0

histVars == <<nToReleased, nToPressed, relTrue, prsTrue, relMark, prsMark,
              dbReads>>

\* _irq_handler leaving _irq_flag as it finds it
IrqHandlerFlag_Keep(flag) == flag

\* _irq_handler (the pin ISR): self._irq_flag.activate()
IrqHandlerFlag(flag) == TRUE

\* the line changes level; the RISING|FALLING interrupt registered by the
\* constructor runs _irq_handler
LineChange ==
  /\ nToReleased + nToPressed < MaxEdges
  /\ line' = 1 - line
  /\ irqFlag' = IF irqAttached THEN IrqHandlerFlag(irqFlag) ELSE irqFlag
  /\ nToReleased' = IF 1 - line = releasedSignal.value
                      THEN nToReleased + 1 ELSE nToReleased
  /\ nToPressed' = IF 1 - line = pressedSignal.value
                     THEN nToPressed + 1 ELSE nToPressed
  /\ UNCHANGED <<releasedSignal, currentState, lastState, toReleasedFlag,
                 toPressedFlag, irqAttached, timer, irqLhActive, agentTasks,
                 dbStart, dbHoldRel, dbHoldPrs, raised, deactivated,
                 relTrue, prsTrue, relMark, prsMark, dbReads>>
  /\ UNCHANGED cfVars
  /\ UNCHANGED extVars
  /\ UNCHANGED ckVars

\* ListenerHandler.activate on _irq_listenerHandler: active = True and the
\* poll loop task is created (the button's own activate() never calls it)
IrqListenerActivate ==
  /\ ~irqLhActive
  /\ irqLhActive' = TRUE
  /\ UNCHANGED <<line, releasedSignal, currentState, lastState, irqFlag,
                 toReleasedFlag, toPressedFlag, irqAttached, timer,
                 agentTasks, dbStart, dbHoldRel, dbHoldPrs, raised,
                 deactivated>>
  /\ UNCHANGED histVars
  /\ UNCHANGED cfVars
  /\ UNCHANGED extVars
  /\ UNCHANGED ckVars

\* SyncListenerAsyncHandler.listen, one iteration in which
\* BooleanFlagListener(_irq_flag).listen() is true: EdgeHandler.handle
\* creates a task running _irq_agentHandler
IrqPoll ==
  /\ irqLhActive
  /\ irqFlag
  /\ agentTasks < MaxTasks
  /\ agentTasks' = agentTasks + 1
  /\ UNCHANGED <<line, releasedSignal, currentState, lastState, irqFlag,
                 toReleasedFlag, toPressedFlag, irqAttached, timer,
                 irqLhActive, dbStart, dbHoldRel, dbHoldPrs, raised,
                 deactivated>>
  /\ UNCHANGED histVars
  /\ UNCHANGED cfVars
  /\ UNCHANGED extVars
  /\ UNCHANGED ckVars

\* _irq_agentHandler: _last_state = _current_state
AgentLastState(cur, last) == cur

\* _irq_agentHandler, run to its end: the two state assignments, then
\* `await self._debounce_timer.activate()`; _irq_flag.deactivate() is reached
\* only if activate() did not raise
IrqAgentHandler ==
  /\ agentTasks > 0
  /\ agentTasks' = agentTasks - 1
  /\ lastState' = AgentLastState(currentState, lastState)
  /\ currentState' = BOUNCING
  /\ LET r == TimerActivate(timer) IN
       /\ timer' = r.timer
       /\ irqFlag' = IF r.raised THEN irqFlag ELSE FALSE
  /\ UNCHANGED <<line, releasedSignal, toReleasedFlag, toPressedFlag,
                 irqAttached, irqLhActive, dbStart, dbHoldRel, dbHoldPrs,
                 raised, deactivated>>
  /\ UNCHANGED histVars
  /\ UNCHANGED cfVars
  /\ UNCHANGED extVars
  /\ UNCHANGED ckVars

\* InterruptDrivenStateDebounceButton.EdgeHandler.handle invoked as the
\* debounce timer's callback: asyncio.create_task(self._debounce_handler()).
\* The callback is fed to the button from outside, and never after
\* deactivate().
DebounceCallback ==
  /\ ~deactivated
  /\ dbStart + dbHoldRel + dbHoldPrs < MaxTasks
  /\ dbReads + dbStart < MaxReads
  /\ dbStart' = dbStart + 1
  /\ UNCHANGED <<line, releasedSignal, currentState, lastState, irqFlag,
                 toReleasedFlag, toPressedFlag, irqAttached, timer,
                 irqLhActive, agentTasks, dbHoldRel, dbHoldPrs, raised,
                 deactivated>>
  /\ UNCHANGED histVars
  /\ UNCHANGED cfVars
  /\ UNCHANGED extVars
  /\ UNCHANGED ckVars

\* _debounce_handler with its two assignments to _current_state left out
DebounceState_Keep(value, cur) == cur

\* _debounce_handler: the state the sample gives _current_state
DebounceState(value, cur) ==
  IF value = releasedSignal.value THEN RELEASED
  ELSE IF value = pressedSignal.value THEN PRESSED
  ELSE cur

\* _debounce_handler: the condition under which _toReleased_flag is set
SetsToReleased(cur, last) == cur = RELEASED /\ last # RELEASED

\* _debounce_handler: the condition under which _toPressed_flag is set
SetsToPressed(cur, last) ==
  ~SetsToReleased(cur, last) /\ cur = PRESSED /\ last # PRESSED

\* _debounce_handler from its start to its first suspension: one line read,
\* _current_state, and the edge flag set before the 2 x interval_ms sleep
DebounceHandler ==
  /\ dbStart > 0
  /\ dbReads' = dbReads + 1
  /\ LET cur == DebounceState(line, currentState)
         amb == line # releasedSignal.value /\ line # pressedSignal.value
     IN
       /\ currentState' = cur
       /\ timer' = IF amb THEN TimerActivate(timer).timer ELSE timer
       /\ IF amb /\ TimerActivate(timer).raised
            THEN /\ dbStart' = dbStart - 1
                 /\ UNCHANGED <<toReleasedFlag, toPressedFlag, dbHoldRel,
                                dbHoldPrs>>
          ELSE IF SetsToReleased(cur, lastState)
            THEN /\ toReleasedFlag' = TRUE
                 /\ dbStart' = dbStart - 1
                 /\ dbHoldRel' = dbHoldRel + 1
                 /\ UNCHANGED <<toPressedFlag, dbHoldPrs>>
          ELSE IF SetsToPressed(cur, lastState)
            THEN /\ toPressedFlag' = TRUE
                 /\ dbStart' = dbStart - 1
                 /\ dbHoldPrs' = dbHoldPrs + 1
                 /\ UNCHANGED <<toReleasedFlag, dbHoldRel>>
          ELSE /\ dbStart' = dbStart - 1
               /\ UNCHANGED <<toReleasedFlag, toPressedFlag, dbHoldRel,
                              dbHoldPrs>>
  /\ UNCHANGED <<line, releasedSignal, lastState, irqFlag, irqAttached,
                 irqLhActive, agentTasks, raised, deactivated>>
  /\ UNCHANGED <<nToReleased, nToPressed, relTrue, prsTrue, relMark,
                 prsMark>>
  /\ UNCHANGED cfVars
  /\ UNCHANGED extVars
  /\ UNCHANGED ckVars

\* _debounce_handler after `await Sleep.async_ms(self.interval_ms<<1)`:
\* self._toReleased_flag.deactivate()
DebounceReleaseHoldEnd ==
  /\ dbHoldRel > 0
  /\ dbHoldRel' = dbHoldRel - 1
  /\ toReleasedFlag' = FALSE
  /\ UNCHANGED <<line, releasedSignal, currentState, lastState, irqFlag,
                 toPressedFlag, irqAttached, timer, irqLhActive, agentTasks,
                 dbStart, dbHoldPrs, raised, deactivated>>
  /\ UNCHANGED histVars
  /\ UNCHANGED cfVars
  /\ UNCHANGED extVars
  /\ UNCHANGED ckVars

\* _debounce_handler after `await Sleep.async_ms(self.interval_ms<<1)`:
\* self._toPressed_flag.deactivate()
DebouncePressHoldEnd ==
  /\ dbHoldPrs > 0
  /\ dbHoldPrs' = dbHoldPrs - 1
  /\ toPressedFlag' = FALSE
  /\ UNCHANGED <<line, releasedSignal, currentState, lastState, irqFlag,
                 toReleasedFlag, irqAttached, timer, irqLhActive, agentTasks,
                 dbStart, dbHoldRel, raised, deactivated>>
  /\ UNCHANGED histVars
  /\ UNCHANGED cfVars
  /\ UNCHANGED extVars
  /\ UNCHANGED ckVars

\* InterruptDrivenStateDebounceButton.isToReleased: read and clear
IsToReleased ==
  /\ relTrue < MaxTrue
  /\ toReleasedFlag
  /\ toReleasedFlag' = FALSE
  /\ relTrue' = relTrue + 1
  /\ relMark' = nToReleased
  /\ UNCHANGED <<line, releasedSignal, currentState, lastState, irqFlag,
                 toPressedFlag, irqAttached, timer, irqLhActive, agentTasks,
                 dbStart, dbHoldRel, dbHoldPrs, raised, deactivated>>
  /\ UNCHANGED <<nToReleased, nToPressed, prsTrue, prsMark, dbReads>>
  /\ UNCHANGED cfVars
  /\ UNCHANGED extVars
  /\ UNCHANGED ckVars

\* InterruptDrivenStateDebounceButton.isToPressed: read and clear
IsToPressed ==
  /\ prsTrue < MaxTrue
  /\ toPressedFlag
  /\ toPressedFlag' = FALSE
  /\ prsTrue' = prsTrue + 1
  /\ prsMark' = nToPressed
  /\ UNCHANGED <<line, releasedSignal, currentState, lastState, irqFlag,
                 toReleasedFlag, irqAttached, timer, irqLhActive, agentTasks,
                 dbStart, dbHoldRel, dbHoldPrs, raised, deactivated>>
  /\ UNCHANGED <<nToReleased, nToPressed, relTrue, relMark, dbReads>>
  /\ UNCHANGED cfVars
  /\ UNCHANGED extVars
  /\ UNCHANGED ckVars

\* InterruptDrivenStateDebounceButton.activate:
\* await self._debounce_timer.activate(), nothing else
Activate ==
  /\ LET r == TimerActivate(timer) IN
       /\ timer' = r.timer
       /\ raised' = r.raised
  /\ deactivated' = FALSE
  /\ UNCHANGED <<line, releasedSignal, currentState, lastState, irqFlag,
                 toReleasedFlag, toPressedFlag, irqAttached, irqLhActive,
                 agentTasks, dbStart, dbHoldRel, dbHoldPrs>>
  /\ UNCHANGED histVars
  /\ UNCHANGED cfVars
  /\ UNCHANGED extVars
  /\ UNCHANGED ckVars

\* InterruptDrivenStateDebounceButton.deactivate:
\* self._debounce_timer.deactivate(), then, if that did not raise,
\* self._irq_listenerHandler.deactivate(); the pin interrupt is not touched
\* and BaseButton.deactivate is not called
Deactivate ==
  /\ LET r == TimerDeactivate(timer) IN
       /\ timer' = r.timer
       /\ raised' = r.raised
       /\ irqLhActive' = IF r.raised THEN irqLhActive ELSE FALSE
  /\ deactivated' = TRUE
  /\ irqAttached' = irqAttached
  /\ UNCHANGED <<line, releasedSignal, currentState, lastState, irqFlag,
                 toReleasedFlag, toPressedFlag, agentTasks, dbStart,
                 dbHoldRel, dbHoldPrs>>
  /\ UNCHANGED histVars
  /\ UNCHANGED cfVars
  /\ UNCHANGED extVars
  /\ UNCHANGED ckVars

IDNext ==
  \/ LineChange
  \/ IrqListenerActivate
  \/ IrqPoll
  \/ IrqAgentHandler
  \/ DebounceCallback
  \/ DebounceHandler
  \/ DebounceReleaseHoldEnd
  \/ DebouncePressHoldEnd
  \/ IsToReleased
  \/ IsToPressed
  \/ Activate
  \/ Deactivate

----------------------------------------------------------------------------
\* StateDebounceButton.getState: the state one pin read gives _last_state
SBGetState(value) ==
  IF value = releasedSignal.value THEN RELEASED
  ELSE IF value = pressedSignal.value THEN PRESSED
  ELSE BOUNCING

\* the call sites of isToPressed (the others call isToReleased):
\* isClickedOnce/isClicked line 1, and the second while loop of isClicked;
\* "toPrs" and "toRel" are calls made directly on the button
PressSites == {"press0", "prs", "toPrs"}
ReleaseSites == {"until", "final", "wait", "rel", "last", "toRel"}
DirectSites == {"toPrs", "toRel"}

\* the state StateDebounceButton.isToPressed / isToReleased starts from
\* and the one it reports
EdgeFrom(site) == IF site \in PressSites THEN RELEASED ELSE PRESSED
\* (variant: the state the edge starts from is reported as reached)
EdgeTo_Same(site) == EdgeFrom(site)

EdgeTo(site) == IF site \in PressSites THEN PRESSED ELSE RELEASED

\* isClickedOnce: `while not await self.isToReleased()` is left
WaitLoopExits_Always(r) == TRUE

WaitLoopExits(r) == r

\* async_until_async / isClicked:
\* `while not await condition() and Time.current_ms() < end_ms` goes on
UntilLoopContinues(r, t, end) == ~r /\ t < end

\* isClicked: `if Time.current_ms() >= end_ms: return False`
DeadlinePassed_Late(t, end) == t > end

DeadlinePassed(t, end) == t >= end

\* isClickedOnce: `return not await Sleep.async_until_async(...)`, where
\* async_until_async ends with `return await condition()`
OnceResult(finalCondition) == ~finalCondition

\* where the caller goes once the isToX call at ckSite has returned r at
\* clock t
AfterEdge(r, t) ==
  LET same == [site |-> ckSite, phase |-> "sleep", end |-> ckEnd, i |-> ckI,
               result |-> ckResult]
      goto(st) == [same EXCEPT !.site = st, !.phase = "call"]
      done(v) == [same EXCEPT !.site = "done", !.phase = "call",
                              !.result = v]
  IN
  CASE ckSite = "press0" /\ ckOp = "once" ->
         IF ~r THEN done(FALSE)
         ELSE IF ckTimeout > 0
           THEN [goto("until") EXCEPT !.end = t + ckTimeout]
           ELSE goto("wait")
    [] ckSite = "press0" /\ ckOp = "clicked" ->
         IF ~r THEN done(FALSE)
         ELSE [goto(IF ckTimes - 1 > 0 THEN "rel" ELSE "last")
                 EXCEPT !.end = t + ckTimeout, !.i = 0]
    [] ckSite = "until" ->
         IF UntilLoopContinues(r, t, ckEnd) THEN same ELSE goto("final")
    [] ckSite = "final" -> done(OnceResult(r))
    [] ckSite = "wait" -> IF WaitLoopExits(r) THEN done(TRUE) ELSE same
    [] ckSite = "rel" ->
         IF UntilLoopContinues(r, t, ckEnd) THEN same ELSE goto("prs")
    [] ckSite = "prs" ->
         IF UntilLoopContinues(r, t, ckEnd) THEN same
         ELSE IF DeadlinePassed(t, ckEnd) THEN done(FALSE)
         ELSE IF ckI + 1 < ckTimes - 1
           THEN [goto("rel") EXCEPT !.i = ckI + 1]
           ELSE [goto("last") EXCEPT !.i = ckI + 1]
    [] ckSite = "last" ->
         IF UntilLoopContinues(r, t, ckEnd) THEN same
         ELSE IF DeadlinePassed(t, ckEnd) THEN done(FALSE)
         ELSE done(TRUE)
    [] ckSite \in DirectSites -> done(r)

\* StateDebounceButton as constructed, no call in progress, clock at 0
CKInit ==
  /\ sbLast = BOUNCING
  /\ now = 0
  /\ ckOp = "none"
  /\ ckTimeout = 0
  /\ ckTimes = 0
  /\ ckSite = "idle"
  /\ ckPhase = "call"
  /\ ckEnd = 0
  /\ ckI = 0
  /\ ckResult = FALSE
  /\ ckPressOk = FALSE
  /\ ckDeadline = 0
  /\ ckRelSeen = FALSE
  /\ ckSeen = 0
  /\ ckLastSeenAt = 0
  /\ ckToggles = 0
  /\ sbReads = 0

\* the bookkeeping of one returned isToX call
Observe(r, t) ==
  /\ ckPressOk' = IF ckSite = "press0" THEN r ELSE ckPressOk
  /\ ckDeadline' = IF ckSite = "press0" THEN t + ckTimeout ELSE ckDeadline
  /\ ckRelSeen' = IF ckSite \in ReleaseSites /\ r THEN TRUE ELSE ckRelSeen
  /\ ckSeen' = IF ckSite # "press0" /\ r THEN ckSeen + 1 ELSE ckSeen
  /\ ckLastSeenAt' = IF ckSite # "press0" /\ r THEN t ELSE ckLastSeenAt

\* the caller moves on as AfterEdge says
MoveOn(r, t) ==
  LET a == AfterEdge(r, t) IN
    /\ ckSite' = a.site
    /\ ckPhase' = a.phase
    /\ ckEnd' = a.end
    /\ ckI' = a.i
    /\ ckResult' = a.result

\* a call of isClickedOnce(timeout_ms), up to its first isToPressed
ClickedOnceCall(timeout) ==
  /\ ckSite = "idle"
  /\ ckOp' = "once"
  /\ ckTimeout' = timeout
  /\ ckTimes' = 1
  /\ ckSite' = "press0"
  /\ ckPhase' = "call"
  /\ ckEnd' = 0
  /\ ckI' = 0
  /\ ckResult' = FALSE
  /\ ckPressOk' = FALSE
  /\ ckDeadline' = 0
  /\ ckRelSeen' = FALSE
  /\ ckSeen' = 0
  /\ ckLastSeenAt' = 0
  /\ ckToggles' = 0
  /\ UNCHANGED <<sbLast, now, sbReads, line, releasedSignal>>
  /\ UNCHANGED idRest
  /\ UNCHANGED cfVars
  /\ UNCHANGED extVars

\* a call of isClicked(timeout_ms, times), up to its first isToPressed:
\* `if times < 1 or timeout_ms < 1: return False`
ClickedCall(timeout, times) ==
  /\ ckSite = "idle"
  /\ ckOp' = "clicked"
  /\ ckTimeout' = timeout
  /\ ckTimes' = times
  /\ ckSite' = IF times < 1 \/ timeout < 1 THEN "done" ELSE "press0"
  /\ ckPhase' = "call"
  /\ ckEnd' = 0
  /\ ckI' = 0
  /\ ckResult' = FALSE
  /\ ckPressOk' = FALSE
  /\ ckDeadline' = 0
  /\ ckRelSeen' = FALSE
  /\ ckSeen' = 0
  /\ ckLastSeenAt' = 0
  /\ ckToggles' = 0
  /\ UNCHANGED <<sbLast, now, sbReads, line, releasedSignal>>
  /\ UNCHANGED idRest
  /\ UNCHANGED cfVars
  /\ UNCHANGED extVars

\* isToPressed() or isToReleased() called directly on the button
EdgeDirectCall(site) ==
  /\ ckSite = "idle"
  /\ ckOp' = "edge"
  /\ ckTimeout' = 0
  /\ ckTimes' = 0
  /\ ckSite' = site
  /\ ckPhase' = "call"
  /\ ckEnd' = 0
  /\ ckI' = 0
  /\ ckResult' = FALSE
  /\ ckPressOk' = FALSE
  /\ ckDeadline' = 0
  /\ ckRelSeen' = FALSE
  /\ ckSeen' = 0
  /\ ckLastSeenAt' = 0
  /\ ckToggles' = 0
  /\ UNCHANGED <<sbLast, now, sbReads, line, releasedSignal>>
  /\ UNCHANGED idRest
  /\ UNCHANGED cfVars
  /\ UNCHANGED extVars

\* StateDebounceButton.isToPressed / isToReleased up to its suspension:
\* _last_state is resolved by one read if it is BOUNCING; the call returns
\* False at once unless _last_state is the state the edge starts from
EdgeCall ==
  /\ ckSite \notin {"idle", "done"}
  /\ ckPhase = "call"
  /\ LET last1 == IF sbLast = BOUNCING THEN SBGetState(line) ELSE sbLast IN
       /\ sbLast' = last1
       /\ sbReads' = IF sbLast = BOUNCING THEN 1 ELSE 0
       /\ IF last1 = EdgeFrom(ckSite)
            THEN /\ ckPhase' = "inner"
                 /\ UNCHANGED <<ckSite, ckEnd, ckI, ckResult, ckPressOk,
                                ckDeadline, ckRelSeen, ckSeen, ckLastSeenAt>>
            ELSE /\ MoveOn(FALSE, now)
                 /\ Observe(FALSE, now)
  /\ UNCHANGED <<now, ckOp, ckTimeout, ckTimes, ckToggles, line,
                 releasedSignal>>
  /\ UNCHANGED idRest
  /\ UNCHANGED cfVars
  /\ UNCHANGED extVars

\* StateDebounceButton.isToPressed / isToReleased after
\* `await Sleep.async_ms(self.interval_ms)`: isPressed()/isReleased() reads
\* the pin through getState, which stores the state in _last_state
EdgeWake(jitter) ==
  /\ ckPhase = "inner"
  /\ now < MaxNow
  /\ LET t == now + IntervalMs + jitter
         st == SBGetState(line)
         r == (st = EdgeTo(ckSite))
     IN
       /\ now' = t
       /\ sbLast' = st
       /\ sbReads' = sbReads + 1
       /\ MoveOn(r, t)
       /\ Observe(r, t)
  /\ UNCHANGED <<ckOp, ckTimeout, ckTimes, ckToggles, line, releasedSignal>>
  /\ UNCHANGED idRest
  /\ UNCHANGED cfVars
  /\ UNCHANGED extVars

\* the sleep of the caller's loop is over: Sleep.async_ms(self.interval_ms)
\* in isClickedOnce and async_until_async, Sleep.async_ms(1) in isClicked
LoopSleep == IF ckOp = "clicked" THEN 1 ELSE IntervalMs

LoopWake(jitter) ==
  /\ ckPhase = "sleep"
  /\ now < MaxNow
  /\ now' = now + LoopSleep + jitter
  /\ ckPhase' = "call"
  /\ UNCHANGED <<sbLast, ckOp, ckTimeout, ckTimes, ckSite, ckEnd, ckI,
                 ckResult, ckPressOk, ckDeadline, ckRelSeen, ckSeen,
                 ckLastSeenAt, ckToggles, sbReads, line, releasedSignal>>
  /\ UNCHANGED idRest
  /\ UNCHANGED cfVars
  /\ UNCHANGED extVars

\* StateDebounceButton.getState called before the click detector is
GetState ==
  /\ ckSite = "idle"
  /\ sbLast' = SBGetState(line)
  /\ UNCHANGED <<now, ckOp, ckTimeout, ckTimes, ckSite, ckPhase, ckEnd, ckI,
                 ckResult, ckPressOk, ckDeadline, ckRelSeen, ckSeen,
                 ckLastSeenAt, ckToggles, sbReads, line, releasedSignal>>
  /\ UNCHANGED idRest
  /\ UNCHANGED cfVars
  /\ UNCHANGED extVars

\* the line changes level between two steps of the caller
LineToggle ==
  /\ ckSite # "done"
  /\ ckToggles < MaxToggles
  /\ line' = 1 - line
  /\ ckToggles' = ckToggles + 1
  /\ UNCHANGED <<sbLast, now, ckOp, ckTimeout, ckTimes, ckSite, ckPhase,
                 ckEnd, ckI, ckResult, ckPressOk, ckDeadline, ckRelSeen,
                 ckSeen, ckLastSeenAt, sbReads, releasedSignal>>
  /\ UNCHANGED idRest
  /\ UNCHANGED cfVars
  /\ UNCHANGED extVars

CKNext ==
  \/ \E T \in {0, MaxTimeout} : ClickedOnceCall(T)
  \/ \E T \in {0, MaxTimeout}, n \in 0..MaxTimes : ClickedCall(T, n)
  \/ \E site \in DirectSites : EdgeDirectCall(site)
  \/ GetState
  \/ EdgeCall
  \/ \E j \in 0..MaxJitter : EdgeWake(j)
  \/ \E j \in 0..MaxJitter : LoopWake(j)
  \/ LineToggle

\* StateMechanismButton (Device/Button/StateMechanismButton.py) on three
\* System.Timer.AsyncTimer objects.

TimerNames == {"debounce", "long", "multi"}
LoopIds == 1..MaxLoops

\* AsyncTimer.__init__: active = False, _timer_task = None.  `ref` is the
\* task _timer_task refers to (0 for None); `tasks` are the _timer_loop
\* tasks this timer created: sleeping ("pending"), cancel requested but the
\* CancelledError not yet delivered ("cancelled"), or finished ("free").
ATNew == [active |-> FALSE, ref |-> 0, tasks |-> [k \in LoopIds |-> "free"]]

\* AsyncTimer.deinit called while task `cur` of this timer is running (0 if
\* none is): Task.cancel() of the running task raises, which deinit logs.
ATDeinit(t, cur) ==
  IF t.ref = 0 THEN [t EXCEPT !.active = FALSE]
  ELSE IF t.tasks[t.ref] = "free" THEN [t EXCEPT !.ref = 0, !.active = FALSE]
  ELSE IF t.ref = cur THEN t
  ELSE [t EXCEPT !.tasks[t.ref] = "cancelled", !.active = FALSE]

\* AsyncTimer.init with period_ms > 0 and a callback: clean up the task
\* _timer_task refers to, then create_task(_timer_loop(...)).  ref = -1
\* marks a request beyond MaxLoops tasks, which no action takes.
ATInit(t) ==
  LET t1 == IF t.ref = 0 THEN t
            ELSE IF t.tasks[t.ref] # "free" THEN ATDeinit(t, 0)
            ELSE [t EXCEPT !.ref = 0, !.active = FALSE]
  IN IF \E k \in LoopIds : t1.tasks[k] = "free"
       THEN LET k == CHOOSE k \in LoopIds : t1.tasks[k] = "free"
            IN [t1 EXCEPT !.ref = k, !.tasks[k] = "pending", !.active = TRUE]
       ELSE [t1 EXCEPT !.ref = -1]

\* the end of _timer_loop, after the one-shot break or the CancelledError
ATFinish(t, k) == [t EXCEPT !.active = FALSE, !.ref = 0, !.tasks[k] = "free"]

\* a countdown of timer t that will still fire its callback
ATPending(t) == \E k \in LoopIds : t.tasks[k] = "pending"

\* Button.__init__ after the three timers were created
SMNew ==
  [state |-> RELEASED, pressFlag |-> FALSE, releaseFlag |-> FALSE,
   longFlag |-> FALSE, multiFlag |-> FALSE, pressStart |-> FALSE,
   pending |-> 0, finalized |-> 0,
   timers |-> [n \in TimerNames |-> ATDeinit(ATNew, 0)]]

\* Button._deinit_all_timers
DeinitAllTimers(b) ==
  [b EXCEPT !.timers = [n \in TimerNames |-> ATDeinit(b.timers[n], 0)]]

\* Button._pin_irq_handler; rapid: fewer than 5 ms since the last accepted IRQ
PinIrqHandler(b, rapid) ==
  IF rapid THEN b
  ELSE [b EXCEPT !.state = BOUNCING,
                 !.timers["debounce"] = ATInit(b.timers["debounce"])]

\* Button._multi_click_window_callback run by task cur of the multi timer
\* (0 when called directly from another callback)
MultiClickWindowCallback(b, cur) ==
  LET m == IF b.timers["multi"].active
             THEN ATDeinit(b.timers["multi"], cur) ELSE b.timers["multi"]
  IN [b EXCEPT !.timers["multi"] = m,
               !.finalized = b.pending,
               !.multiFlag = IF b.pending > 0 THEN TRUE ELSE b.multiFlag,
               !.pending = 0]

\* Button._long_press_callback: the test under which it sets
\* _on_long_press_flag
LongPressDetected(b, value, pressed) ==
  b.state = PRESSED /\ value = pressed.value

\* Button._long_press_callback run by task cur of the long timer; value is
\* the pin level it reads
LongPressCallback(b, cur, value, pressed) ==
  LET l == IF b.timers["long"].active
             THEN ATDeinit(b.timers["long"], cur) ELSE b.timers["long"]
      b1 == [b EXCEPT !.timers["long"] = l]
  IN IF LongPressDetected(b1, value, pressed)
       THEN LET b2 == [b1 EXCEPT !.longFlag = TRUE]
            IN IF b2.timers["multi"].active
                 THEN MultiClickWindowCallback(
                        [b2 EXCEPT !.timers["multi"] =
                                     ATDeinit(b2.timers["multi"], 0)], 0)
                 ELSE b2
       ELSE b1

\* Button._debounce_callback, the branch for a stable pressed level
DebouncePressed(b) ==
  IF b.state # PRESSED
    THEN [b EXCEPT !.state = PRESSED, !.pressFlag = TRUE,
                   !.pressStart = TRUE,
                   !.timers["long"] = ATInit(b.timers["long"])]
    ELSE b

\* (variant: the event flag is left set by the read)
GetFinalizedClickCount_Keep(b) ==
  [value |-> IF b.multiFlag THEN b.finalized ELSE 0, button |-> b]

\* Button.get_finalized_click_count: the finalized count if the multi-click
\* event flag is set, which the read clears; otherwise 0
GetFinalizedClickCount(b) ==
  [value |-> IF b.multiFlag THEN b.finalized ELSE 0,
   button |-> [b EXCEPT !.multiFlag = FALSE]]

\* is_short_press: the long press timer is still active at the release
IsShortPress(b) == b.timers["long"].active

\* Button._debounce_callback, the branch for a stable released level
DebounceReleased(b) ==
  IF b.state # RELEASED
    THEN LET short == IsShortPress(b)
             b1 == [b EXCEPT !.state = RELEASED, !.releaseFlag = TRUE,
                             !.pressStart = FALSE,
                             !.timers["long"] =
                                IF short THEN ATDeinit(b.timers["long"], 0)
                                         ELSE b.timers["long"]]
         IN IF short
              THEN [b1 EXCEPT !.pending = b1.pending + 1,
                              !.timers["multi"] = ATInit(b1.timers["multi"])]
              ELSE IF b1.pending > 0 /\ b1.timers["multi"].active
                     THEN MultiClickWindowCallback(
                            [b1 EXCEPT !.timers["multi"] =
                                         ATDeinit(b1.timers["multi"], 0)], 0)
                     ELSE b1
    ELSE b

\* Button._debounce_callback run by task cur of the debounce timer
DebounceCallbackSM(b, cur, value, pressed, released) ==
  LET d == IF b.timers["debounce"].active
             THEN ATDeinit(b.timers["debounce"], cur)
             ELSE b.timers["debounce"]
      b1 == [b EXCEPT !.timers["debounce"] = d]
  IN IF value = pressed.value THEN DebouncePressed(b1)
     ELSE IF value = released.value THEN DebounceReleased(b1)
     ELSE b1

\* _timer_loop after the callback of a one-shot timer returned
LoopFinish(b, n, k) == [b EXCEPT !.timers[n] = ATFinish(b.timers[n], k)]

\* no request went beyond the modelled number of tasks and clicks
WithinBounds(b) ==
  /\ \A n \in TimerNames : b.timers[n].ref >= 0
  /\ b.pending <= MaxPending

\* the event _debounce_callback flags: _on_press_flag is set in the branch
\* for a stable pressed level if _current_state != PRESSED, _on_release_flag
\* in the branch for a stable released level if _current_state != RELEASED
DebounceEvent(b, value, pressed, released) ==
  IF value = pressed.value
    THEN (IF b.state # PRESSED THEN "press" ELSE "none")
  ELSE IF value = released.value
    THEN (IF b.state # RELEASED THEN "release" ELSE "none")
  ELSE "none"

SMInit(pressed, released, lv) ==
  /\ sm = SMNew
  /\ smLine = lv
  /\ smPressed = pressed
  /\ smReleased = released
  /\ smIrqAttached = TRUE
  /\ smPc = "run"
  /\ smEdges = 0
  /\ smEvents = <<>>
  /\ smLine0 = lv
  /\ smLongInPress = FALSE
  /\ smShorts = 0
  /\ smClosed = FALSE
  /\ smCloseBit = FALSE
  /\ smCloseCount = 0
  /\ smGets = 0
  /\ smGot = 0

\* the line changes level; the pin IRQ (both edges) runs the handler while
\* one is attached
SMLineChange(rapid) ==
  /\ smEdges < MaxSmEdges
  /\ smEdges' = smEdges + 1
  /\ smLine' = 1 - smLine
  /\ IF smIrqAttached
       THEN /\ WithinBounds(PinIrqHandler(sm, rapid))
            /\ sm' = PinIrqHandler(sm, rapid)
       ELSE UNCHANGED sm
  /\ UNCHANGED <<smPressed, smReleased, smIrqAttached, smPc>>
  /\ UNCHANGED smHist
  /\ UNCHANGED smOthers

\* Button._debounce_callback closes the multi-click window itself: a
\* release that is not a short press, with clicks pending and the window
\* timer active
ReleaseClosesWindow(b, value, pressed, released) ==
  /\ DebounceEvent(b, value, pressed, released) = "release"
  /\ ~IsShortPress(b)
  /\ b.pending > 0
  /\ b.timers["multi"].active

\* Button._long_press_callback closes the multi-click window itself
LongClosesWindow(b, value, pressed) ==
  LongPressDetected(b, value, pressed) /\ b.timers["multi"].active

\* bookkeeping of one callback: whether it closed the window, and whether it
\* counted a short-press release
CloseHist(closes, shortRelease) ==
  /\ smShorts' = IF closes THEN 0
                 ELSE IF shortRelease THEN smShorts + 1 ELSE smShorts
  /\ smClosed' = (smClosed \/ closes)
  /\ smCloseBit' = IF closes THEN ~smCloseBit ELSE smCloseBit
  /\ smCloseCount' = IF closes THEN smShorts ELSE smCloseCount
  /\ smGets' = IF closes THEN 0 ELSE smGets
  /\ smGot' = smGot

\* the debounce countdown k expires: callback, then the loop ends
SMDebounceFire(k) ==
  /\ sm.timers["debounce"].tasks[k] = "pending"
  /\ LET b == LoopFinish(DebounceCallbackSM(sm, k, smLine, smPressed,
                                             smReleased), "debounce", k)
     IN WithinBounds(b) /\ sm' = b
  /\ smEvents' = LET e == DebounceEvent(sm, smLine, smPressed, smReleased)
                 IN IF e = "none" THEN smEvents ELSE Append(smEvents, e)
  /\ smLongInPress' =
       IF DebounceEvent(sm, smLine, smPressed, smReleased) = "press"
         THEN FALSE ELSE smLongInPress
  /\ CloseHist(ReleaseClosesWindow(sm, smLine, smPressed, smReleased),
               /\ DebounceEvent(sm, smLine, smPressed, smReleased) = "release"
               /\ IsShortPress(sm))
  /\ UNCHANGED smLine0
  /\ UNCHANGED <<smLine, smPressed, smReleased, smIrqAttached, smPc, smEdges>>
  /\ UNCHANGED smOthers

\* the long press countdown k expires
SMLongFire(k) ==
  /\ sm.timers["long"].tasks[k] = "pending"
  /\ sm' = LoopFinish(LongPressCallback(sm, k, smLine, smPressed), "long", k)
  /\ smLongInPress' = (smLongInPress \/ LongPressDetected(sm, smLine, smPressed))
  /\ CloseHist(LongClosesWindow(sm, smLine, smPressed), FALSE)
  /\ UNCHANGED <<smLine, smPressed, smReleased, smIrqAttached, smPc, smEdges>>
  /\ UNCHANGED <<smEvents, smLine0>>
  /\ UNCHANGED smOthers

\* the multi-click window countdown k expires
SMMultiFire(k) ==
  /\ sm.timers["multi"].tasks[k] = "pending"
  /\ sm' = LoopFinish(MultiClickWindowCallback(sm, k), "multi", k)
  /\ CloseHist(TRUE, FALSE)
  /\ UNCHANGED <<smLine, smPressed, smReleased, smIrqAttached, smPc, smEdges>>
  /\ UNCHANGED <<smEvents, smLine0, smLongInPress>>
  /\ UNCHANGED smOthers

\* a cancelled _timer_loop task is resumed with CancelledError and ends
SMCancelledExit(n, k) ==
  /\ sm.timers[n].tasks[k] = "cancelled"
  /\ sm' = LoopFinish(sm, n, k)
  /\ UNCHANGED <<smLine, smPressed, smReleased, smIrqAttached, smPc, smEdges>>
  /\ UNCHANGED smHist
  /\ UNCHANGED smOthers

\* a call of Button.get_finalized_click_count()
SMGetFinalized ==
  /\ smGets < MaxGets
  /\ LET r == GetFinalizedClickCount(sm) IN
       /\ sm' = r.button
       /\ smGot' = r.value
  /\ smGets' = smGets + 1
  /\ UNCHANGED <<smLine, smPressed, smReleased, smIrqAttached, smPc, smEdges>>
  /\ UNCHANGED <<smEvents, smLine0, smLongInPress, smShorts, smClosed,
                 smCloseBit, smCloseCount>>
  /\ UNCHANGED smOthers

\* Button.stopEventHandlers, first statement: _deinit_all_timers()
SMStopDeinitTimers ==
  /\ smPc = "run"
  /\ sm' = DeinitAllTimers(sm)
  /\ smPc' = "deinit"
  /\ UNCHANGED <<smLine, smPressed, smReleased, smIrqAttached, smEdges>>
  /\ UNCHANGED smHist
  /\ UNCHANGED smOthers

\* Button.stopEventHandlers, the rest: pin.irq(handler=None), then the
\* external event handlers are stopped
SMStopDetachIrq ==
  /\ smPc = "deinit"
  /\ smIrqAttached' = FALSE
  /\ smPc' = "stopped"
  /\ UNCHANGED <<sm, smLine, smPressed, smReleased, smEdges>>
  /\ UNCHANGED smHist
  /\ UNCHANGED smOthers

SMNext ==
  \/ \E rapid \in BOOLEAN : SMLineChange(rapid)
  \/ \E k \in LoopIds : SMDebounceFire(k)
  \/ \E k \in LoopIds : SMLongFire(k)
  \/ \E k \in LoopIds : SMMultiFire(k)
  \/ \E n \in TimerNames, k \in LoopIds : SMCancelledExit(n, k)
  \/ SMGetFinalized
  \/ SMStopDeinitTimers
  \/ SMStopDetachIrq

----------------------------------------------------------------------------
\* Listener/Handler poll loops (Utils/ListenerHandler.py).  One pair of a
\* listener and a handler in one of the four compositions.

LHKinds == {"SyncSync", "SyncAsync", "AsyncSync", "AsyncAsync"}
PollIds == 1..MaxPollLoops

\* the listener is awaited (AsyncListenerSyncHandler, AsyncListenerAsyncHandler)
ListenerIsAsync(kind) == kind \in {"AsyncSync", "AsyncAsync"}

\* the handler is dispatched with asyncio.create_task(self.handler.handle())
HandlerIsAsync(kind) == kind \in {"SyncAsync", "AsyncAsync"}

\* asyncio.create_task(self.handler.handle()): one more handler invocation
\* in progress next to those already running
CreateTask_Joined(running) == IF running > 0 THEN running ELSE 1

CreateTask(running) == running + 1

\* the loop condition `while self.active`
LoopRuns(active) == active

\* a listen() task at its `while self.active` test: just created, or
\* resumed from Sleep.async_ms(self.period_ms)
AtLoopTest(l) == lhLoops[l].pc \in {"start", "sleep"}

NoLoop == [pc |-> "none", stale |-> FALSE, evals |-> 0]

LHInit(kind) ==
  /\ lhKind = kind
  /\ lhActive = FALSE
  /\ lhLoops = [l \in PollIds |-> NoLoop]
  /\ lhRunning = 0
  /\ lhEvals = 0
  /\ lhEvalTrue = 0
  /\ lhInvoked = 0
  /\ lhStaleEval = FALSE
  /\ lhLateHandle = FALSE

\* ListenerHandler.activate: self.active = True; create_task(self.listen())
LHActivate ==
  /\ \E l \in PollIds : lhLoops[l].pc = "none"
  /\ lhActive' = TRUE
  /\ LET l == CHOOSE l \in PollIds : lhLoops[l].pc = "none"
     IN lhLoops' = [lhLoops EXCEPT ![l] = [pc |-> "start", stale |-> FALSE, evals |-> 0]]
  /\ UNCHANGED <<lhKind, lhRunning, lhEvals, lhEvalTrue, lhInvoked,
                 lhStaleEval, lhLateHandle>>
  /\ UNCHANGED lhOthers

\* ListenerHandler.deactivate: self.active = False.  Every listen() task
\* alive at this moment is marked as one deactivate() was called on.
LHDeactivate ==
  /\ lhActive' = FALSE
  /\ lhLoops' = [l \in PollIds |->
                   IF lhLoops[l].pc = "none" THEN lhLoops[l]
                   ELSE [lhLoops[l] EXCEPT !.stale = TRUE]]
  /\ UNCHANGED <<lhKind, lhRunning, lhEvals, lhEvalTrue, lhInvoked,
                 lhStaleEval, lhLateHandle>>
  /\ UNCHANGED lhOthers

\* the listener returned r to loop l, which has then made n evaluations:
\* the handler is called or dispatched if r is True, then the loop suspends
\* for period_ms
Handle(l, r, n) ==
  /\ lhEvalTrue' = IF r THEN lhEvalTrue + 1 ELSE lhEvalTrue
  /\ lhInvoked' = IF r THEN lhInvoked + 1 ELSE lhInvoked
  /\ lhRunning' = IF r /\ HandlerIsAsync(lhKind)
                    THEN CreateTask(lhRunning) ELSE lhRunning
  /\ lhLateHandle' = (lhLateHandle \/ (r /\ ~lhActive))
  /\ lhLoops' = [lhLoops EXCEPT ![l].pc = "sleep", ![l].evals = n]

\* listen() with a synchronous listener: test, listener.listen(), handler,
\* Sleep.async_ms without a suspension in between
LHPoll(l, r) ==
  /\ ~ListenerIsAsync(lhKind)
  /\ AtLoopTest(l)
  /\ LoopRuns(lhActive)
  /\ lhEvals < MaxPolls
  /\ r => lhRunning < MaxHandlers
  /\ lhEvals' = lhEvals + 1
  /\ lhStaleEval' = (lhStaleEval \/ lhLoops[l].stale)
  /\ Handle(l, r, lhLoops[l].evals + 1)
  /\ UNCHANGED <<lhKind, lhActive>>
  /\ UNCHANGED lhOthers

\* listen() with an asynchronous listener: test, then await listener.listen()
LHBeginListen(l) ==
  /\ ListenerIsAsync(lhKind)
  /\ AtLoopTest(l)
  /\ LoopRuns(lhActive)
  /\ lhEvals < MaxPolls
  /\ lhEvals' = lhEvals + 1
  /\ lhStaleEval' = (lhStaleEval \/ lhLoops[l].stale)
  /\ lhLoops' = [lhLoops EXCEPT ![l].pc = "listening",
                                 ![l].evals = lhLoops[l].evals + 1]
  /\ UNCHANGED <<lhKind, lhActive, lhRunning, lhEvalTrue, lhInvoked,
                 lhLateHandle>>
  /\ UNCHANGED lhOthers

\* the awaited listener returns r
LHEndListen(l, r) ==
  /\ lhLoops[l].pc = "listening"
  /\ r => lhRunning < MaxHandlers
  /\ Handle(l, r, lhLoops[l].evals)
  /\ UNCHANGED <<lhKind, lhActive, lhEvals, lhStaleEval>>
  /\ UNCHANGED lhOthers

\* the loop condition is false: listen() returns
LHExit(l) ==
  /\ AtLoopTest(l)
  /\ ~LoopRuns(lhActive)
  /\ lhLoops' = [lhLoops EXCEPT ![l] = NoLoop]
  /\ UNCHANGED <<lhKind, lhActive, lhRunning, lhEvals, lhEvalTrue,
                 lhInvoked, lhStaleEval, lhLateHandle>>
  /\ UNCHANGED lhOthers

\* a dispatched handler invocation runs to its end
LHHandlerFinish ==
  /\ lhRunning > 0
  /\ lhRunning' = lhRunning - 1
  /\ UNCHANGED <<lhKind, lhActive, lhLoops, lhEvals, lhEvalTrue, lhInvoked,
                 lhStaleEval, lhLateHandle>>
  /\ UNCHANGED lhOthers

LHNext ==
  \/ LHActivate
  \/ LHDeactivate
  \/ \E l \in PollIds, r \in BOOLEAN : LHPoll(l, r)
  \/ \E l \in PollIds : LHBeginListen(l)
  \/ \E l \in PollIds, r \in BOOLEAN : LHEndListen(l, r)
  \/ \E l \in PollIds : LHExit(l)
  \/ LHHandlerFinish

----------------------------------------------------------------------------
\* Construction and level queries of a CountFilteringImmediateDebounceButton
\* (Device/Button.py), whose constructor runs BaseButton.__init__.

\* countFiltering run on the sample stream `samples` from counter value cnt:
\* whether the loop ended within the stream, what it returned and how many
\* samples it read
RECURSIVE CFRun(_, _, _, _, _)
CFRun(cnt, samples, target, threshold, reads) ==
  IF ~LoopContinues(cnt, threshold)
    THEN [returned |-> TRUE, result |-> CountResult(cnt, threshold),
          reads |-> reads]
  ELSE IF samples = <<>>
    THEN [returned |-> FALSE, result |-> FALSE, reads |-> reads]
  ELSE CFRun(CountUpdate(cnt, Head(samples), target), Tail(samples),
             target, threshold, reads + 1)

\* countFiltering(pin, target, threshold, interval_ms) on a sample stream
CountFiltering(samples, target, threshold) ==
  CFRun(0, samples, target, threshold, 0)

\* the sample streams of at most n reads
RECURSIVE Streams(_)
Streams(n) ==
  IF n = 0 THEN {<<>>}
  ELSE LET shorter == Streams(n - 1)
       IN shorter \cup {Append(s, v) : s \in {t \in shorter : Len(t) = n - 1},
                                       v \in PinValues}

\* a Signal object that is neither Signal.HIGH nor Signal.LOW
OtherSignal == [value |-> 1, name |-> "ON"]
SignalInputs == Signals \cup {OtherSignal}

\* BaseButton.__init__ raises exactly when Signal.inverse does; interval_ms
\* and threshold are stored as given
ConstructorRaises(released, interval, threshold) ==
  SignalEq(inverse(released), RaisedValueError)

BTInit ==
  /\ btPc = "none"
  /\ btReleased = HIGH
  /\ btPressed = HIGH
  /\ btInterval = 0
  /\ btThreshold = 0
  /\ btOp = "none"
  /\ btResult = FALSE
  /\ btReads = 0
  /\ btStream = <<>>
  /\ btState = BOUNCING
  /\ btRaised = FALSE

\* CountFilteringImmediateDebounceButton(pin, released, interval, threshold)
BTConstruct(released, interval, threshold) ==
  /\ btPc = "none"
  /\ IF ConstructorRaises(released, interval, threshold)
       THEN /\ btPc' = "raised"
            /\ UNCHANGED <<btReleased, btPressed, btInterval, btThreshold>>
       ELSE /\ btPc' = "constructed"
            /\ btReleased' = released
            /\ btPressed' = inverse(released)
            /\ btInterval' = interval
            /\ btThreshold' = threshold
  /\ UNCHANGED <<btOp, btResult, btReads, btStream, btState, btRaised>>
  /\ UNCHANGED btOthers

\* the signal isReleased() / isPressed() pass to countFiltering_async
QueryTarget(op) == IF op = "isReleased" THEN btReleased ELSE btPressed

\* isReleased() or isPressed() runs to its return on the stream `samples`
BTQuery(op, samples) ==
  /\ btPc = "constructed"
  /\ LET run == CountFiltering(samples, QueryTarget(op), btThreshold)
     IN /\ run.returned
        /\ run.reads = Len(samples)
        /\ btResult' = run.result
        /\ btReads' = run.reads
  /\ btOp' = op
  /\ btStream' = samples
  /\ btRaised' = FALSE
  /\ UNCHANGED <<btPc, btReleased, btPressed, btInterval, btThreshold,
                 btState>>
  /\ UNCHANGED btOthers

\* CountFilteringImmediateDebounceButton.getState: the sum of the first n
\* samples, `cnt += self.pin.value()` for each of range(threshold)
RECURSIVE SumFirst(_, _)
SumFirst(samples, n) ==
  IF n <= 0 THEN 0 ELSE Head(samples) + SumFirst(Tail(samples), n - 1)

\* CountFilteringImmediateDebounceButton.getState: the state for the sum
CountState(cnt, threshold, released, pressed) ==
  IF cnt = threshold
    THEN (IF released.value = 1 THEN RELEASED ELSE PRESSED)
  ELSE IF cnt = 0
    THEN (IF pressed.value = 0 THEN PRESSED ELSE RELEASED)
  ELSE BOUNCING

\* getState() runs to its return on a line that offers `samples`; it reads
\* the first `threshold` of them
BTGetState(samples) ==
  /\ btPc = "constructed"
  /\ Len(samples) >= btThreshold
  /\ btState' = CountState(SumFirst(samples, btThreshold), btThreshold,
                           btReleased, btPressed)
  /\ btReads' = IF btThreshold > 0 THEN btThreshold ELSE 0
  /\ btStream' = samples
  /\ btOp' = "getState"
  /\ btRaised' = FALSE
  /\ UNCHANGED <<btPc, btReleased, btPressed, btInterval, btThreshold,
                 btResult>>
  /\ UNCHANGED btOthers

\* the attributes an object of a Python type has: Signal.__init__ assigns
\* value and name; an int, which pin.value() returns, has neither
HasAttr(type, attr) == type = "Signal" /\ attr \in {"value", "name"}

\* `self.pin.value() == signal` in ImmediateDebounceButton: int.__eq__ does
\* not know Signal, so Signal.__eq__(signal, value) runs, and
\* `self.value == other.value` reads the attribute `value` of the int
IntEqSignal(value, signal) ==
  IF HasAttr("int", "value")
    THEN [raised |-> FALSE, result |-> value = signal.value, reads |-> 1]
    ELSE [raised |-> TRUE, result |-> FALSE, reads |-> 1]

\* ImmediateDebounceButton.isToReleased / isToPressed on the reads `first`
\* and, one interval_ms later, `second`: a level query for the signal
\* `from`, then one for the signal `to`
ImmediateEdge(first, second, from, to) ==
  LET a == IntEqSignal(first, from)
      b == IntEqSignal(second, to)
  IN IF a.raised \/ ~a.result THEN a
     ELSE [raised |-> b.raised, result |-> b.result, reads |-> 2]

ImmediateOps == {"Immediate.isReleased", "Immediate.isPressed",
                 "Immediate.isToReleased", "Immediate.isToPressed"}

\* ImmediateDebounceButton: what `op` does on a line that reads `first` and
\* then `second`
ImmediateQuery(op, first, second) ==
  IF op = "Immediate.isReleased" THEN IntEqSignal(first, btReleased)
  ELSE IF op = "Immediate.isPressed" THEN IntEqSignal(first, btPressed)
  ELSE IF op = "Immediate.isToReleased"
    THEN ImmediateEdge(first, second, btPressed, btReleased)
  ELSE ImmediateEdge(first, second, btReleased, btPressed)

\* one call of isReleased, isPressed, isToReleased or isToPressed of an
\* ImmediateDebounceButton with the constructor arguments of the instance
BTImmediate(op, first, second) ==
  /\ btPc = "constructed"
  /\ LET r == ImmediateQuery(op, first, second) IN
       /\ btRaised' = r.raised
       /\ btResult' = r.result
       /\ btReads' = r.reads
  /\ btStream' = <<first, second>>
  /\ btOp' = op
  /\ UNCHANGED <<btPc, btReleased, btPressed, btInterval, btThreshold,
                 btState>>
  /\ UNCHANGED btOthers

BTNext ==
  \/ \E rs \in SignalInputs, iv \in (0 - MaxBelow)..MaxInterval,
        th \in (0 - MaxBelow)..MaxThreshold : BTConstruct(rs, iv, th)
  \/ \E op \in {"isReleased", "isPressed"}, s \in Streams(MaxStream) :
        BTQuery(op, s)
  \/ \E s \in Streams(MaxStream) : BTGetState(s)
  \/ \E op \in ImmediateOps, first \in PinValues, second \in PinValues :
        BTImmediate(op, first, second)

----------------------------------------------------------------------------
\* Digital.isChanged_* and Digital.isChangedStably_* (System/Digital.py; the
\* same functions are in Utils/DigitalFilters.py), one call on a stream of
\* pin reads.

ChangeOps == {"isChanged", "isChangedStably"}

\* `for _ in range(threshold)`: another read of the window is made
WindowOpen_Extra(win, threshold) == win <= threshold

WindowOpen(win, threshold) == win < threshold

\* the target isChangedStably passes to countFiltering
FilterTarget_Start(start, end) == start

FilterTarget(start, end) == end

CHInit ==
  /\ chOp = "none"
  /\ chStart = HIGH
  /\ chEnd = HIGH
  /\ chThreshold = 0
  /\ chPc = "idle"
  /\ chReads = <<>>
  /\ chWin = 0
  /\ chCnt = 0
  /\ chSlept = 0
  /\ chResult = FALSE

\* a call op(pin, start, end, threshold, interval_ms)
CHCall(op, start, end, threshold) ==
  /\ chPc = "idle"
  /\ chOp' = op
  /\ chStart' = start
  /\ chEnd' = end
  /\ chThreshold' = threshold
  /\ chPc' = "first"
  /\ UNCHANGED <<chReads, chWin, chCnt, chSlept, chResult>>
  /\ UNCHANGED chOthers

\* `if pin.value() != start.value`: isChanged returns False at once,
\* isChangedStably after one sleep
CHFirst(value) ==
  /\ chPc = "first"
  /\ chReads' = Append(chReads, value)
  /\ IF value # chStart.value
       THEN /\ chPc' = "returned"
            /\ chResult' = FALSE
            /\ chSlept' = IF chOp = "isChangedStably" THEN chSlept + 1
                                                      ELSE chSlept
       ELSE /\ chPc' = "wait"
            /\ UNCHANGED <<chResult, chSlept>>
  /\ UNCHANGED <<chOp, chStart, chEnd, chThreshold, chWin, chCnt>>
  /\ UNCHANGED chOthers

\* `while pin.value() == start.value: sleep`: one test of the condition
CHWait(value) ==
  /\ chPc = "wait"
  /\ Len(chReads) < MaxChReads
  /\ chReads' = Append(chReads, value)
  /\ IF value = chStart.value
       THEN /\ chSlept' = chSlept + 1
            /\ UNCHANGED chPc
       ELSE /\ chPc' = IF chOp = "isChanged" THEN "window" ELSE "filter"
            /\ UNCHANGED chSlept
  /\ UNCHANGED <<chOp, chStart, chEnd, chThreshold, chWin, chCnt, chResult>>
  /\ UNCHANGED chOthers

\* isChanged, one iteration of the for loop
CHWindow(value) ==
  /\ chPc = "window"
  /\ WindowOpen(chWin, chThreshold)
  /\ Len(chReads) < MaxChReads
  /\ chReads' = Append(chReads, value)
  /\ chWin' = chWin + 1
  /\ IF value = chEnd.value
       THEN /\ chPc' = "returned"
            /\ chResult' = TRUE
            /\ UNCHANGED chSlept
       ELSE /\ chSlept' = chSlept + 1
            /\ UNCHANGED <<chPc, chResult>>
  /\ UNCHANGED <<chOp, chStart, chEnd, chThreshold, chCnt>>
  /\ UNCHANGED chOthers

\* isChanged, the for loop is exhausted: return False
CHWindowEnd ==
  /\ chPc = "window"
  /\ ~WindowOpen(chWin, chThreshold)
  /\ chPc' = "returned"
  /\ chResult' = FALSE
  /\ UNCHANGED <<chOp, chStart, chEnd, chThreshold, chReads, chWin, chCnt,
                 chSlept>>
  /\ UNCHANGED chOthers

\* isChangedStably, one iteration of the loop of the countFiltering call
CHFilter(value) ==
  /\ chPc = "filter"
  /\ LoopContinues(chCnt, chThreshold)
  /\ Len(chReads) < MaxChReads
  /\ chReads' = Append(chReads, value)
  /\ chCnt' = CountUpdate(chCnt, value, FilterTarget(chStart, chEnd))
  /\ chSlept' = chSlept + 1
  /\ UNCHANGED <<chOp, chStart, chEnd, chThreshold, chPc, chWin, chResult>>
  /\ UNCHANGED chOthers

\* isChangedStably returns what countFiltering returns
CHFilterReturn ==
  /\ chPc = "filter"
  /\ ~LoopContinues(chCnt, chThreshold)
  /\ chPc' = "returned"
  /\ chResult' = CountResult(chCnt, chThreshold)
  /\ UNCHANGED <<chOp, chStart, chEnd, chThreshold, chReads, chWin, chCnt,
                 chSlept>>
  /\ UNCHANGED chOthers

CHNext ==
  \/ \E op \in ChangeOps, s \in Signals, e \in Signals,
        th \in (0 - MaxBelow)..MaxThreshold : CHCall(op, s, e, th)
  \/ \E v \in PinValues : CHFirst(v)
  \/ \E v \in PinValues : CHWait(v)
  \/ \E v \in PinValues : CHWindow(v)
  \/ CHWindowEnd
  \/ \E v \in PinValues : CHFilter(v)
  \/ CHFilterReturn

----------------------------------------------------------------------------
\* Timer pools: MachineTimer.ALLOCATIONS (System/Time/Timer.py) and
\* IdManager (System/Timer.py), from which StateMechanismButton.Button draws
\* the ids of its three timers.  IdManager is modelled with the size of
\* MachineTimer.idManager.

TimerIds == 0..(LIMIT - 1)
ManagerIds == 0..(IdManagerSize - 1)
Instances == 1..MaxInst

\* `None` as a timer id argument, and the ValueError of allocateID
NoId == -1

\* every id of range(LIMIT) is a key of ALLOCATIONS (0: no entry)
AllAllocated(alloc) == \A i \in TimerIds : alloc[i] # 0

AllocateID_Wrap(alloc) ==
  IF AllAllocated(alloc) THEN 0
  ELSE CHOOSE i \in TimerIds :
         alloc[i] = 0 /\ \A j \in TimerIds : alloc[j] = 0 => i <= j

\* MachineTimer.allocateID: the first id not in ALLOCATIONS, else it raises
AllocateID(alloc) ==
  IF AllAllocated(alloc) THEN NoId
  ELSE CHOOSE i \in TimerIds :
         alloc[i] = 0 /\ \A j \in TimerIds : alloc[j] = 0 => i <= j

\* MachineTimer.allocate
Allocate(alloc, id, inst) ==
  IF alloc[id] = 0 THEN [alloc EXCEPT ![id] = inst] ELSE alloc

\* MachineTimer.release
Release(alloc, id) == [alloc EXCEPT ![id] = 0]

\* IdManager.get: `len(self.using) >= self.size`
PoolFull(using, size) == Cardinality(using) >= size

\* IdManager.get with rdm the random id it ends up with
IdGet(using, size, rdm) ==
  IF PoolFull(using, size) THEN [raised |-> TRUE, using |-> using]
  ELSE [raised |-> FALSE, using |-> using \cup {rdm}]

\* the draw rdm ends the `while rdm in self.using` loop of get
DrawEnds(using, size, rdm) == PoolFull(using, size) \/ rdm \notin using

NewInst == [state |-> "new", id |-> NoId]

TPInit(pool) ==
  /\ tpPool = pool
  /\ tpAlloc = [i \in TimerIds |-> 0]
  /\ tpInst = [n \in Instances |-> NewInst]
  /\ tpUsing = {}
  /\ tpBtn = "none"
  /\ tpLast = [op |-> "none", full |-> FALSE, raised |-> FALSE, same |-> TRUE]

\* MachineTimer(id): instance n is constructed, idArg = NoId for no id
MTConstruct(n, idArg) ==
  /\ tpPool = "ALLOCATIONS"
  /\ tpInst[n].state = "new"
  /\ \A m \in Instances : m < n => tpInst[m].state # "new"
  /\ LET id == IF idArg = NoId THEN AllocateID(tpAlloc) ELSE idArg
     IN IF id = NoId
          THEN /\ UNCHANGED <<tpAlloc, tpInst>>
               /\ tpLast' = [op |-> "MachineTimer", full |-> TRUE,
                             raised |-> TRUE, same |-> TRUE]
          ELSE /\ tpAlloc' = Allocate(tpAlloc, id, n)
               /\ tpInst' = [tpInst EXCEPT ![n] = [state |-> "live", id |-> id]]
               /\ tpLast' = [op |-> "MachineTimer",
                             full |-> (idArg = NoId /\ AllAllocated(tpAlloc)),
                             raised |-> FALSE, same |-> FALSE]
  /\ UNCHANGED <<tpPool, tpUsing, tpBtn>>
  /\ UNCHANGED tpOthers

\* MachineTimer.deinit of a live instance
MTDeinit(n) ==
  /\ tpPool = "ALLOCATIONS"
  /\ tpInst[n].state = "live"
  /\ tpAlloc' = Release(tpAlloc, tpInst[n].id)
  /\ tpInst' = [tpInst EXCEPT ![n].state = "dead"]
  /\ tpLast' = [op |-> "deinit", full |-> FALSE, raised |-> FALSE,
                same |-> FALSE]
  /\ UNCHANGED <<tpPool, tpUsing, tpBtn>>
  /\ UNCHANGED tpOthers

\* IdManager.get
IMGet(rdm) ==
  /\ tpPool = "IdManager"
  /\ DrawEnds(tpUsing, IdManagerSize, rdm)
  /\ LET g == IdGet(tpUsing, IdManagerSize, rdm)
     IN /\ tpUsing' = g.using
        /\ tpLast' = [op |-> "get", full |-> PoolFull(tpUsing, IdManagerSize),
                      raised |-> g.raised, same |-> (g.using = tpUsing)]
  /\ UNCHANGED <<tpPool, tpAlloc, tpInst, tpBtn>>
  /\ UNCHANGED tpOthers

\* IdManager.free
IMFree(id) ==
  /\ tpPool = "IdManager"
  /\ id \in tpUsing
  /\ tpUsing' = tpUsing \ {id}
  /\ tpLast' = [op |-> "free", full |-> FALSE, raised |-> FALSE,
                same |-> FALSE]
  /\ UNCHANGED <<tpPool, tpAlloc, tpInst, tpBtn>>
  /\ UNCHANGED tpOthers

\* the except clause of Button.__init__: what it does with the exception
ButtonOutcome(failed) == IF failed THEN "raised" ELSE "constructed"

\* StateMechanismButton.Button(...): three AsyncTimer(id=timer_ids[i]).
\* explicit: the caller gave three ids >= 0, no id is drawn.  rs: the ids
\* the three get() calls draw.  finalised: the runtime runs __del__ of the
\* timers dropped by the except clause, which frees their ids.
SMBConstruct(explicit, rs, finalised) ==
  /\ tpPool = "IdManager"
  /\ LET g1 == IdGet(tpUsing, IdManagerSize, rs[1])
         g2 == IF g1.raised THEN g1 ELSE IdGet(g1.using, IdManagerSize, rs[2])
         g3 == IF g2.raised THEN g2 ELSE IdGet(g2.using, IdManagerSize, rs[3])
     IN IF explicit
          THEN /\ rs = <<0, 0, 0>> /\ ~finalised
               /\ tpBtn' = ButtonOutcome(FALSE)
               /\ tpLast' = [op |-> "Button", full |-> FALSE,
                             raised |-> FALSE, same |-> TRUE]
               /\ UNCHANGED tpUsing
          ELSE /\ DrawEnds(tpUsing, IdManagerSize, rs[1])
               /\ ~g1.raised => DrawEnds(g1.using, IdManagerSize, rs[2])
               /\ ~g2.raised => DrawEnds(g2.using, IdManagerSize, rs[3])
               /\ finalised => g3.raised
               /\ tpBtn' = ButtonOutcome(g3.raised)
               /\ tpUsing' = IF finalised THEN tpUsing ELSE g3.using
               /\ tpLast' = [op |-> "Button", full |-> g3.raised,
                             raised |-> (ButtonOutcome(g3.raised) = "raised"),
                             same |-> (tpUsing' = tpUsing)]
  /\ UNCHANGED <<tpPool, tpAlloc, tpInst>>
  /\ UNCHANGED tpOthers

TPNext ==
  \/ \E n \in Instances, id \in TimerIds \cup {NoId} : MTConstruct(n, id)
  \/ \E n \in Instances : MTDeinit(n)
  \/ \E rdm \in ManagerIds : IMGet(rdm)
  \/ \E id \in ManagerIds : IMFree(id)
  \/ \E explicit \in BOOLEAN, rs \in [1..3 -> ManagerIds],
        finalised \in BOOLEAN : SMBConstruct(explicit, rs, finalised)

----------------------------------------------------------------------------
\* The edge-flag hold of InterruptDrivenStateDebounceButton._debounce_handler
\* with its timing: the clock advances in ms, and a task whose sleep has
\* elapsed runs before the clock advances again.

\* _debounce_handler with a hold of interval_ms << 2
HoldMs_Four(interval) == interval * 4

\* _debounce_handler: the argument of Sleep.async_ms, self.interval_ms << 1
HoldMs(interval) == interval * 2

\* ages are counted up to one ms past the hold the claim allows
AgeCap == 2 * IntervalMs + 1

\* the sequence s without its i-th element
RemoveAt(s, i) == [j \in 1..(Len(s) - 1) |-> IF j < i THEN s[j] ELSE s[j + 1]]

\* the state InterruptDrivenStateDebounceButton.__init__ leaves
HDInit(lv) ==
  /\ hdLine = lv
  /\ hdCur = BOUNCING
  /\ hdLast = BOUNCING
  /\ hdRel = FALSE
  /\ hdPrs = FALSE
  /\ hdHolds = <<>>
  /\ hdRelAge = 0
  /\ hdPrsAge = 0
  /\ hdRuns = 0
  /\ hdTrue = 0
  /\ hdExpired = FALSE

\* the line changes level
HDLineChange ==
  /\ hdLine' = 1 - hdLine
  /\ UNCHANGED <<hdCur, hdLast, hdRel, hdPrs, hdHolds, hdRelAge, hdPrsAge,
                 hdRuns, hdTrue, hdExpired>>
  /\ UNCHANGED hdOthers

\* _irq_agentHandler: _last_state = _current_state; _current_state = BOUNCING
HDAgent ==
  /\ hdLast' = AgentLastState(hdCur, hdLast)
  /\ hdCur' = BOUNCING
  /\ UNCHANGED <<hdLine, hdRel, hdPrs, hdHolds, hdRelAge, hdPrsAge, hdRuns,
                 hdTrue, hdExpired>>
  /\ UNCHANGED hdOthers

\* _debounce_handler from its start to its first suspension: the line read,
\* _current_state, and the edge flag set before
\* `await Sleep.async_ms(self.interval_ms<<1)`
HDFire ==
  /\ hdRuns < MaxReads
  /\ Len(hdHolds) < MaxHolds
  /\ hdRuns' = hdRuns + 1
  /\ LET cur == DebounceState(hdLine, hdCur) IN
       /\ hdCur' = cur
       /\ IF SetsToReleased(cur, hdLast)
            THEN /\ hdRel' = TRUE
                 /\ hdRelAge' = IF hdRel THEN hdRelAge ELSE 0
                 /\ hdHolds' = Append(hdHolds,
                      [flag |-> "rel", left |-> HoldMs(IntervalMs)])
                 /\ UNCHANGED <<hdPrs, hdPrsAge>>
          ELSE IF SetsToPressed(cur, hdLast)
            THEN /\ hdPrs' = TRUE
                 /\ hdPrsAge' = IF hdPrs THEN hdPrsAge ELSE 0
                 /\ hdHolds' = Append(hdHolds,
                      [flag |-> "prs", left |-> HoldMs(IntervalMs)])
                 /\ UNCHANGED <<hdRel, hdRelAge>>
          ELSE UNCHANGED <<hdRel, hdPrs, hdRelAge, hdPrsAge, hdHolds>>
  /\ UNCHANGED <<hdLine, hdLast, hdTrue, hdExpired>>
  /\ UNCHANGED hdOthers

\* one ms passes while no sleeping task is due
HDTick ==
  /\ hdHolds # <<>> \/ hdRel \/ hdPrs
  /\ \A i \in 1..Len(hdHolds) : hdHolds[i].left > 0
  /\ hdHolds' = [i \in 1..Len(hdHolds) |->
                   [hdHolds[i] EXCEPT !.left = hdHolds[i].left - 1]]
  /\ hdRelAge' = IF hdRel /\ hdRelAge < AgeCap THEN hdRelAge + 1 ELSE hdRelAge
  /\ hdPrsAge' = IF hdPrs /\ hdPrsAge < AgeCap THEN hdPrsAge + 1 ELSE hdPrsAge
  /\ UNCHANGED <<hdLine, hdCur, hdLast, hdRel, hdPrs, hdRuns, hdTrue,
                 hdExpired>>
  /\ UNCHANGED hdOthers

\* _debounce_handler after its sleep: self._toReleased_flag.deactivate() or
\* self._toPressed_flag.deactivate()
HDHoldEnd(i) ==
  /\ i \in 1..Len(hdHolds)
  /\ hdHolds[i].left = 0
  /\ hdHolds' = RemoveAt(hdHolds, i)
  /\ IF hdHolds[i].flag = "rel"
       THEN /\ hdRel' = FALSE
            /\ hdRelAge' = 0
            /\ hdExpired' = (hdExpired \/ hdRel)
            /\ UNCHANGED <<hdPrs, hdPrsAge>>
       ELSE /\ hdPrs' = FALSE
            /\ hdPrsAge' = 0
            /\ hdExpired' = (hdExpired \/ hdPrs)
            /\ UNCHANGED <<hdRel, hdRelAge>>
  /\ UNCHANGED <<hdLine, hdCur, hdLast, hdRuns, hdTrue>>
  /\ UNCHANGED hdOthers

\* InterruptDrivenStateDebounceButton.isToReleased returning True
HDIsToReleased ==
  /\ hdTrue < MaxTrue
  /\ hdRel
  /\ hdRel' = FALSE
  /\ hdRelAge' = 0
  /\ hdTrue' = hdTrue + 1
  /\ UNCHANGED <<hdLine, hdCur, hdLast, hdPrs, hdHolds, hdPrsAge, hdRuns,
                 hdExpired>>
  /\ UNCHANGED hdOthers

\* InterruptDrivenStateDebounceButton.isToPressed returning True
HDIsToPressed ==
  /\ hdTrue < MaxTrue
  /\ hdPrs
  /\ hdPrs' = FALSE
  /\ hdPrsAge' = 0
  /\ hdTrue' = hdTrue + 1
  /\ UNCHANGED <<hdLine, hdCur, hdLast, hdRel, hdHolds, hdRelAge, hdRuns,
                 hdExpired>>
  /\ UNCHANGED hdOthers

HDNext ==
  \/ HDLineChange
  \/ HDAgent
  \/ HDFire
  \/ HDTick
  \/ \E i \in 1..MaxHolds : HDHoldEnd(i)
  \/ HDIsToReleased
  \/ HDIsToPressed

----------------------------------------------------------------------------
\* One OnReleasedListener polling StateDebounceButton.isToReleased
\* (Device/Button.py); nothing else calls the button.

\* calls started during a press for the press to count as stable
MinHeld == 2

PLInit(lv) ==
  /\ plLine = lv
  /\ plLast = BOUNCING
  /\ plPhase = "idle"
  /\ plEdges = 0
  /\ plHeld = 0
  /\ plFell = FALSE
  /\ plGot = FALSE

\* the line changes level
PLLineChange ==
  /\ plEdges < MaxPlEdges
  /\ plEdges' = plEdges + 1
  /\ plLine' = 1 - plLine
  /\ IF plLine = pressedSignal.value
       THEN /\ plFell' = (plHeld >= MinHeld)
            /\ plGot' = FALSE
            /\ UNCHANGED plHeld
       ELSE /\ plFell' = FALSE
            /\ plHeld' = 0
            /\ UNCHANGED plGot
  /\ UNCHANGED <<plLast, plPhase>>
  /\ UNCHANGED plOthers

\* OnReleasedListener.listen -> isToReleased up to its suspension:
\* _last_state is resolved by one read if it is BOUNCING, and the call
\* returns False at once unless _last_state is PRESSED
PLListen ==
  /\ plPhase = "idle"
  /\ LET last1 == IF plLast = BOUNCING THEN SBGetState(plLine) ELSE plLast IN
       /\ plLast' = last1
       /\ plPhase' = IF last1 = PRESSED THEN "inner" ELSE "sleep"
  /\ plHeld' = IF plLine = pressedSignal.value /\ plHeld < MinHeld
                 THEN plHeld + 1 ELSE plHeld
  /\ UNCHANGED <<plLine, plEdges, plFell, plGot>>
  /\ UNCHANGED plOthers

\* isToReleased after `await Sleep.async_ms(self.interval_ms)`:
\* isReleased() reads the pin through getState, which stores the state
PLListenWake ==
  /\ plPhase = "inner"
  /\ LET st == SBGetState(plLine) IN
       /\ plLast' = st
       /\ plGot' = (plGot \/ st = RELEASED)
  /\ plPhase' = "sleep"
  /\ UNCHANGED <<plLine, plEdges, plHeld, plFell>>
  /\ UNCHANGED plOthers

\* the poll loop's sleep of period_ms is over
PLLoopWake ==
  /\ plPhase = "sleep"
  /\ plPhase' = "idle"
  /\ UNCHANGED <<plLine, plLast, plEdges, plHeld, plFell, plGot>>
  /\ UNCHANGED plOthers

PLNext ==
  \/ PLLineChange
  \/ PLListen
  \/ PLListenWake
  \/ PLLoopWake

----------------------------------------------------------------------------
\* Handlers registered on a button and its activate()/deactivate()
\* (Device/Button.py), for each of the button classes.

Strategies ==
  {"ImmediateDebounceButton", "CountFilteringImmediateDebounceButton",
   "StateDebounceButton", "InterruptDrivenStateDebounceButton"}

\* the classes that define activate()/deactivate() of their own, without a
\* call of BaseButton.activate / BaseButton.deactivate
OverridesActivate(strategy) ==
  strategy = "InterruptDrivenStateDebounceButton"

\* addOnReleasedHandler, addOnPressedHandler, addOnClickedOnceHandler,
\* addOnClickedHandler: the listener of the pair appended
ListenerKinds == {"OnReleased", "OnPressed", "OnClickedOnce", "OnClicked"}

\* ListenerHandler.__init__: active = False, no listen() task
NewPair(kind) == [kind |-> kind, active |-> FALSE, loops |-> 0]

\* BaseButton.activate: `for lh in self.listenerHandler: await lh.activate()`
\* (active = True; create_task(self.listen()))
ActivatePairs(pairs) ==
  [i \in DOMAIN pairs |->
     [pairs[i] EXCEPT !.active = TRUE, !.loops = pairs[i].loops + 1]]

\* BaseButton.deactivate: `for lh in self.listenerHandler: lh.deactivate()`
DeactivatePairs(pairs) ==
  [i \in DOMAIN pairs |-> [pairs[i] EXCEPT !.active = FALSE]]

BAInit(strategy) ==
  /\ baStrategy = strategy
  /\ baIsActive = FALSE
  /\ baPairs = <<>>
  /\ baTimer = TimerNew
  /\ baOp = "none"
  /\ baRaised = FALSE

\* one of the four addOn...Handler methods
BAAddHandler(kind) ==
  /\ Len(baPairs) < MaxReg
  /\ baPairs' = Append(baPairs, NewPair(kind))
  /\ baOp' = "add"
  /\ baRaised' = FALSE
  /\ UNCHANGED <<baStrategy, baIsActive, baTimer>>
  /\ UNCHANGED baOthers

\* button.activate()
BAActivate ==
  /\ \A i \in DOMAIN baPairs : baPairs[i].loops < MaxPollLoops
  /\ baOp' = "activate"
  /\ IF OverridesActivate(baStrategy)
       THEN LET r == TimerActivate(baTimer) IN
              /\ baTimer' = r.timer
              /\ baRaised' = r.raised
              /\ UNCHANGED <<baIsActive, baPairs>>
       ELSE /\ baIsActive' = TRUE
            /\ baPairs' = ActivatePairs(baPairs)
            /\ baRaised' = FALSE
            /\ UNCHANGED baTimer
  /\ UNCHANGED baStrategy
  /\ UNCHANGED baOthers

\* button.deactivate()
BADeactivate ==
  /\ baOp' = "deactivate"
  /\ IF OverridesActivate(baStrategy)
       THEN LET r == TimerDeactivate(baTimer) IN
              /\ baTimer' = r.timer
              /\ baRaised' = r.raised
              /\ UNCHANGED <<baIsActive, baPairs>>
       ELSE /\ baIsActive' = FALSE
            /\ baPairs' = DeactivatePairs(baPairs)
            /\ baRaised' = FALSE
            /\ UNCHANGED baTimer
  /\ UNCHANGED baStrategy
  /\ UNCHANGED baOthers

\* a listen() task of pair i finds `while self.active` false and returns
BALoopExit(i) ==
  /\ i \in DOMAIN baPairs
  /\ baPairs[i].loops > 0
  /\ ~LoopRuns(baPairs[i].active)
  /\ baPairs' = [baPairs EXCEPT ![i].loops = baPairs[i].loops - 1]
  /\ UNCHANGED <<baStrategy, baIsActive, baTimer, baOp, baRaised>>
  /\ UNCHANGED baOthers

BANext ==
  \/ \E kind \in ListenerKinds : BAAddHandler(kind)
  \/ BAActivate
  \/ BADeactivate
  \/ \E i \in 1..MaxReg : BALoopExit(i)

----------------------------------------------------------------------------
\* Lock_Implementation (System/Lock.py), the lock used when _thread cannot
\* be imported: one acquire() call, and release()/acquire() calls made on
\* the same lock from elsewhere (an interrupt handler, another thread).

\* int(timeout * 1000) for a timeout of h half-milliseconds
TimeoutMs(h) == h \div 2

\* where acquire() goes first: `if waitflag != 0:` with `if timeout > 0:`
\* and `elif timeout < 0:`
AcquireEntry(waitflag, h) ==
  IF waitflag # 0 /\ h > 0 THEN "loop"
  ELSE IF waitflag # 0 /\ h < 0 THEN "loopU"
  ELSE "test"

\* the timed wait `while self._locked:` goes on; timeout_ms is not part of
\* the loop condition
TimedWaitGoesOn(locked, timeoutMs) == locked

\* the body of the timed wait after sync_ms(1):
\* `if timeout_ms > 0: timeout_ms -= 1`
CountDown(timeoutMs) == IF timeoutMs > 0 THEN timeoutMs - 1 ELSE timeoutMs

LKInit(startLocked) ==
  /\ lkLocked = startLocked
  /\ lkPc = "idle"
  /\ lkWaitflag = 1
  /\ lkTimeout = 0 - 1
  /\ lkTimeoutMs = 0
  /\ lkResult = FALSE
  /\ lkSlept = 0
  /\ lkClock = 0

\* lock.acquire(waitflag, timeout) up to its first loop test
LKAcquire(waitflag, h) ==
  /\ lkPc = "idle"
  /\ lkWaitflag' = waitflag
  /\ lkTimeout' = h
  /\ lkTimeoutMs' = IF AcquireEntry(waitflag, h) = "loop"
                      THEN TimeoutMs(h) ELSE 0
  /\ lkPc' = AcquireEntry(waitflag, h)
  /\ UNCHANGED <<lkLocked, lkResult, lkSlept, lkClock>>
  /\ UNCHANGED lkOthers

\* one test of the timed wait: either the loop is left, or sync_ms(1) and
\* the countdown
LKTimedWait ==
  /\ lkPc = "loop"
  /\ IF TimedWaitGoesOn(lkLocked, lkTimeoutMs)
       THEN /\ lkTimeoutMs' = CountDown(lkTimeoutMs)
            /\ lkSlept' = IF lkSlept < MaxSlept THEN lkSlept + 1 ELSE lkSlept
            /\ lkClock' = 1 - lkClock
            /\ UNCHANGED lkPc
       ELSE /\ lkPc' = "test"
            /\ UNCHANGED <<lkTimeoutMs, lkSlept, lkClock>>
  /\ UNCHANGED <<lkLocked, lkWaitflag, lkTimeout, lkResult>>
  /\ UNCHANGED lkOthers

\* one test of the unbounded wait
LKUnboundedWait ==
  /\ lkPc = "loopU"
  /\ IF lkLocked
       THEN /\ lkSlept' = IF lkSlept < MaxSlept THEN lkSlept + 1 ELSE lkSlept
            /\ lkClock' = 1 - lkClock
            /\ UNCHANGED lkPc
       ELSE /\ lkPc' = "test"
            /\ UNCHANGED <<lkSlept, lkClock>>
  /\ UNCHANGED <<lkLocked, lkWaitflag, lkTimeout, lkTimeoutMs, lkResult>>
  /\ UNCHANGED lkOthers

\* `if self._locked: return False`, else `self._locked = True; return True`
LKTest ==
  /\ lkPc = "test"
  /\ lkResult' = ~lkLocked
  /\ lkLocked' = TRUE
  /\ lkPc' = "done"
  /\ UNCHANGED <<lkWaitflag, lkTimeout, lkTimeoutMs, lkSlept, lkClock>>
  /\ UNCHANGED lkOthers

\* release() called from elsewhere while the lock is held
LKReleaseElsewhere ==
  /\ lkPc # "done"
  /\ lkLocked
  /\ lkLocked' = FALSE
  /\ UNCHANGED <<lkPc, lkWaitflag, lkTimeout, lkTimeoutMs, lkResult, lkSlept,
                 lkClock>>
  /\ UNCHANGED lkOthers

\* acquire(0) called from elsewhere while the lock is free
LKAcquireElsewhere ==
  /\ lkPc # "done"
  /\ ~lkLocked
  /\ lkLocked' = TRUE
  /\ UNCHANGED <<lkPc, lkWaitflag, lkTimeout, lkTimeoutMs, lkResult, lkSlept,
                 lkClock>>
  /\ UNCHANGED lkOthers

LKNext ==
  \/ \E waitflag \in 0..1, h \in (0 - 1)..MaxLockTimeout : LKAcquire(waitflag, h)
  \/ LKTimedWait
  \/ LKUnboundedWait
  \/ LKTest
  \/ LKReleaseElsewhere
  \/ LKAcquireElsewhere

----------------------------------------------------------------------------
\* Specifications, one per component
SpecCFInit ==
  /\ CFInit
  /\ IDInit(HIGH, 1)
  /\ CKInit
  /\ SMInit(LOW, HIGH, 1)
  /\ LHInit("SyncSync")
  /\ BTInit
  /\ CHInit
  /\ TPInit("IdManager")
  /\ HDInit(1)
  /\ PLInit(1)
  /\ BAInit("StateDebounceButton")
  /\ LKInit(FALSE)

SpecCF == SpecCFInit /\ [][CFNext]_vars

SpecIDInit ==
  /\ CFInit
  /\ \E rs \in Signals, lv \in PinValues : IDInit(rs, lv)
  /\ CKInit
  /\ SMInit(LOW, HIGH, 1)
  /\ LHInit("SyncSync")
  /\ BTInit
  /\ CHInit
  /\ TPInit("IdManager")
  /\ HDInit(1)
  /\ PLInit(1)
  /\ BAInit("StateDebounceButton")
  /\ LKInit(FALSE)

SpecID == SpecIDInit /\ [][IDNext]_vars

SpecCKInit ==
  /\ CFInit
  /\ \E rs \in Signals, lv \in PinValues : IDInit(rs, lv)
  /\ CKInit
  /\ SMInit(LOW, HIGH, 1)
  /\ LHInit("SyncSync")
  /\ BTInit
  /\ CHInit
  /\ TPInit("IdManager")
  /\ HDInit(1)
  /\ PLInit(1)
  /\ BAInit("StateDebounceButton")
  /\ LKInit(FALSE)

SpecCK == SpecCKInit /\ [][CKNext]_vars

SpecSMInit ==
  /\ CFInit
  /\ IDInit(HIGH, 1)
  /\ CKInit
  /\ \E p \in Signals, r \in Signals, lv \in PinValues : SMInit(p, r, lv)
  /\ LHInit("SyncSync")
  /\ BTInit
  /\ CHInit
  /\ TPInit("IdManager")
  /\ HDInit(1)
  /\ PLInit(1)
  /\ BAInit("StateDebounceButton")
  /\ LKInit(FALSE)

SpecSM == SpecSMInit /\ [][SMNext]_vars

SpecLHInit ==
  /\ CFInit
  /\ IDInit(HIGH, 1)
  /\ CKInit
  /\ SMInit(LOW, HIGH, 1)
  /\ \E kind \in LHKinds : LHInit(kind)
  /\ BTInit
  /\ CHInit
  /\ TPInit("IdManager")
  /\ HDInit(1)
  /\ PLInit(1)
  /\ BAInit("StateDebounceButton")
  /\ LKInit(FALSE)

SpecLH == SpecLHInit /\ [][LHNext]_vars

SpecBTInit ==
  /\ CFInit
  /\ IDInit(HIGH, 1)
  /\ CKInit
  /\ SMInit(LOW, HIGH, 1)
  /\ LHInit("SyncSync")
  /\ BTInit
  /\ CHInit
  /\ TPInit("IdManager")
  /\ HDInit(1)
  /\ PLInit(1)
  /\ BAInit("StateDebounceButton")
  /\ LKInit(FALSE)

SpecBT == SpecBTInit /\ [][BTNext]_vars

SpecCHInit ==
  /\ CFInit
  /\ IDInit(HIGH, 1)
  /\ CKInit
  /\ SMInit(LOW, HIGH, 1)
  /\ LHInit("SyncSync")
  /\ BTInit
  /\ CHInit
  /\ TPInit("IdManager")
  /\ HDInit(1)
  /\ PLInit(1)
  /\ BAInit("StateDebounceButton")
  /\ LKInit(FALSE)

SpecCH == SpecCHInit /\ [][CHNext]_vars

SpecTPInit ==
  /\ CFInit
  /\ IDInit(HIGH, 1)
  /\ CKInit
  /\ SMInit(LOW, HIGH, 1)
  /\ LHInit("SyncSync")
  /\ BTInit
  /\ CHInit
  /\ \E pool \in {"ALLOCATIONS", "IdManager"} : TPInit(pool)
  /\ HDInit(1)
  /\ PLInit(1)
  /\ BAInit("StateDebounceButton")
  /\ LKInit(FALSE)

SpecTP == SpecTPInit /\ [][TPNext]_vars

SpecHDInit ==
  /\ CFInit
  /\ \E rs \in Signals, lv \in PinValues : IDInit(rs, lv)
  /\ CKInit
  /\ SMInit(LOW, HIGH, 1)
  /\ LHInit("SyncSync")
  /\ BTInit
  /\ CHInit
  /\ TPInit("IdManager")
  /\ \E lv \in PinValues : HDInit(lv)
  /\ PLInit(1)
  /\ BAInit("StateDebounceButton")
  /\ LKInit(FALSE)

SpecHD == SpecHDInit /\ [][HDNext]_vars

SpecPLInit ==
  /\ CFInit
  /\ \E rs \in Signals, lv \in PinValues : IDInit(rs, lv)
  /\ CKInit
  /\ SMInit(LOW, HIGH, 1)
  /\ LHInit("SyncSync")
  /\ BTInit
  /\ CHInit
  /\ TPInit("IdManager")
  /\ HDInit(1)
  /\ \E lv \in PinValues : PLInit(lv)
  /\ BAInit("StateDebounceButton")
  /\ LKInit(FALSE)

SpecPL == SpecPLInit /\ [][PLNext]_vars

SpecBAInit ==
  /\ CFInit
  /\ IDInit(HIGH, 1)
  /\ CKInit
  /\ SMInit(LOW, HIGH, 1)
  /\ LHInit("SyncSync")
  /\ BTInit
  /\ CHInit
  /\ TPInit("IdManager")
  /\ HDInit(1)
  /\ PLInit(1)
  /\ \E strategy \in Strategies : BAInit(strategy)
  /\ LKInit(FALSE)

SpecBA == SpecBAInit /\ [][BANext]_vars

SpecLKInit ==
  /\ CFInit
  /\ IDInit(HIGH, 1)
  /\ CKInit
  /\ SMInit(LOW, HIGH, 1)
  /\ LHInit("SyncSync")
  /\ BTInit
  /\ CHInit
  /\ TPInit("IdManager")
  /\ HDInit(1)
  /\ PLInit(1)
  /\ BAInit("StateDebounceButton")
  /\ \E startLocked \in BOOLEAN : LKInit(startLocked)

SpecLK == SpecLKInit /\ [][LKNext]_vars
\* (end of specifications)

\* The interrupt-driven button under the scheduling of the asyncio event
\* loop: a task that can run is run, so the poll loop of
\* _irq_listenerHandler, once started, keeps polling, and every created
\* _irq_agentHandler and _debounce_handler task runs to its end.
SpecIDLive ==
  /\ SpecIDInit
  /\ [][IDNext]_vars
  /\ WF_vars(IrqListenerActivate)
  /\ WF_vars(IrqPoll)
  /\ WF_vars(IrqAgentHandler)
  /\ WF_vars(DebounceHandler)
  /\ WF_vars(DebounceReleaseHoldEnd)
  /\ WF_vars(DebouncePressHoldEnd)

\* the poll loop of the released-edge poller keeps running
SpecPLLive ==
  /\ SpecPLInit
  /\ [][PLNext]_vars
  /\ WF_vars(PLListen)
  /\ WF_vars(PLListenWake)
  /\ WF_vars(PLLoopWake)

\* the caller of acquire() keeps running
SpecLKLive ==
  /\ SpecLKInit
  /\ [][LKNext]_vars
  /\ WF_vars(LKTimedWait)
  /\ WF_vars(LKUnboundedWait)
  /\ WF_vars(LKTest)

----------------------------------------------------------------------------
\* The last n samples the call read
LastSamples(n) ==
  IF Len(cfSamples) >= n
    THEN {cfSamples[i] : i \in (Len(cfSamples) - n + 1)..Len(cfSamples)}
    ELSE {-1}

\* C1: countFiltering returns True exactly when the last `threshold` samples
\* it read all equal target, and False exactly when the last `threshold`
\* samples all differ from target.
C1_CountFilterResult ==
  cfPc = "returned" =>
    /\ cfResult = TRUE <=> LastSamples(cfThreshold) = {cfTarget.value}
    /\ cfResult = FALSE <=> LastSamples(cfThreshold) = {1 - cfTarget.value}

C1_Witness ==
  /\ cfPc = "returned"
  /\ cfResult = TRUE
  /\ cfThreshold = 3
  /\ Len(cfSamples) > 3

\* C2: while the loop runs the counter stays strictly inside
\* (-threshold, threshold); a matching sample on a negative counter gives
\* +1, a non-matching sample on a positive counter gives -1; no iteration
\* starts once |cnt| = threshold.
C2_CounterTrajectory ==
  /\ cfCnt <= cfThreshold /\ cfCnt >= -cfThreshold
  /\ (cfPc = "loop" /\ cfSamples # <<>>) =>
       LET v == cfSamples[Len(cfSamples)] IN
         /\ -cfThreshold < cfPrev /\ cfPrev < cfThreshold
         /\ (v = cfTarget.value /\ cfPrev < 0) => cfCnt = 1
         /\ (v # cfTarget.value /\ cfPrev > 0) => cfCnt = -1
         /\ (v = cfTarget.value /\ cfPrev >= 0) => cfCnt = cfPrev + 1
         /\ (v # cfTarget.value /\ cfPrev <= 0) => cfCnt = cfPrev - 1

C2_Witness ==
  /\ cfPc = "loop"
  /\ cfSamples # <<>>
  /\ cfPrev = 2
  /\ cfCnt = -1

----------------------------------------------------------------------------
\* C3: once isToReleased (isToPressed) has returned True, it does not return
\* True again until the line has made a new pressed-to-released
\* (released-to-pressed) transition.
C3_EdgeOncePerTransition ==
  [][ /\ (relTrue' = relTrue + 1 /\ relTrue > 0) => nToReleased > relMark
      /\ (prsTrue' = prsTrue + 1 /\ prsTrue > 0) => nToPressed > prsMark
    ]_vars

\* C4: the number of True results of isToPressed (isToReleased) never
\* exceeds the number of released-to-pressed (pressed-to-released)
\* transitions of the line.
C4_AtMostOncePerTransition ==
  /\ relTrue <= nToReleased
  /\ prsTrue <= nToPressed

\* C5: isToReleased does not return True before the line has made its first
\* released-to-pressed transition.
C5_NoReleaseAtStartup == relTrue > 0 => nToPressed > 0

\* C9: once deactivate() has been called, _debounce_handler neither reads
\* the line nor sets an edge flag.
C9_NoCallbackAfterDeactivate ==
  [][ (deactivated /\ deactivated') =>
        /\ dbReads' = dbReads
        /\ ~(toReleasedFlag' /\ ~toReleasedFlag)
        /\ ~(toPressedFlag' /\ ~toPressedFlag)
    ]_vars

\* C10: after deactivate() the pin interrupt handler is detached, no debounce
\* timer is pending and the instance's Listener/Handler poll loop is
\* inactive.
C10_DeactivateReleasesAll ==
  deactivated =>
    /\ ~irqAttached
    /\ timer.task # "pending"
    /\ ~irqLhActive

\* C6: isClickedOnce(T), T > 0, returns False when the timeout elapses
\* after the press edge without isToReleased having reported the release.
C6_TimeoutGivesFalse ==
  (ckSite = "done" /\ ckOp = "once" /\ ckTimeout > 0 /\ ckPressOk
     /\ ~ckRelSeen) => ckResult = FALSE

\* C7: isClickedOnce(0), once its initial isToPressed has returned True,
\* returns only after an isToReleased call has returned True, at that very
\* moment, and returns True.
C7_ClickOnceBlocks ==
  (ckSite = "done" /\ ckOp = "once" /\ ckTimeout = 0 /\ ckPressOk) =>
    /\ ckResult = TRUE
    /\ ckRelSeen
    /\ ckLastSeenAt = now

C7_Witness ==
  /\ ckSite = "done"
  /\ ckOp = "once"
  /\ ckTimeout = 0
  /\ ckPressOk
  /\ ckResult = TRUE
  /\ ckToggles >= 2

\* C8: isClicked(timeout_ms, n) keeps the one deadline fixed when the first
\* press was seen; it returns True exactly when the n-1 release-then-press
\* pairs and the final release were all seen before that deadline, and it
\* returns False only once the deadline has passed.
C8_SharedDeadline ==
  (ckOp = "clicked" /\ ckPressOk) =>
    /\ ckEnd = ckDeadline
    /\ ckSite = "done" =>
         /\ ckResult = TRUE <=>
              (ckSeen = 2 * ckTimes - 1 /\ ckLastSeenAt < ckDeadline)
         /\ ckResult = FALSE => now >= ckDeadline

C8_Witness ==
  /\ ckSite = "done"
  /\ ckOp = "clicked"
  /\ ckTimes = 2
  /\ ckPressOk
  /\ ckResult = TRUE
  /\ ckSeen = 3

\* C11: once deactivation (stopEventHandlers) has finished, no timer of the
\* button is pending, whenever a late pin interrupt arrived during teardown.
C11_NoTimerPendingAfterStop ==
  smPc = "stopped" => \A n \in TimerNames : ~ATPending(sm.timers[n])

\* C12: in the compositions that dispatch the handler with create_task,
\* every True listener evaluation starts one more handler invocation next
\* to those still in progress; it never waits for or joins an earlier one.
C12_FireAndForget ==
  [][(HandlerIsAsync(lhKind) /\ lhEvalTrue' = lhEvalTrue + 1)
       => /\ lhRunning' = lhRunning + 1
          /\ lhInvoked' = lhInvoked + 1]_vars

\* one loop found the listener True on two consecutive polls and both
\* handler invocations are in progress
C12_Witness ==
  /\ HandlerIsAsync(lhKind)
  /\ lhRunning = 2
  /\ lhInvoked = 2
  /\ lhEvalTrue = 2
  /\ \E l \in PollIds : lhLoops[l].evals = 2 /\ lhLoops[l].pc = "sleep"

\* C13: the handler is invoked once for each True evaluation and never
\* otherwise, a loop evaluates the listener only at its start or after a
\* period_ms suspension, and a loop that was alive when deactivate() was
\* called does not evaluate the listener again.
C13_PollLoopContract ==
  [][/\ lhInvoked' - lhInvoked = lhEvalTrue' - lhEvalTrue
     /\ \A l \in PollIds :
          lhLoops'[l].evals > lhLoops[l].evals =>
            lhLoops[l].pc = (IF lhLoops[l].evals = 0 THEN "start" ELSE "sleep")
     /\ ~lhStaleEval']_vars

\* C14: Signal.inverse is an involution on {HIGH, LOW} without a fixed
\* point, and the pressed_signal of a constructed button (BaseButton and its
\* subclasses) is the inverse of its released_signal.
C14_InverseInvolution ==
  /\ \A s \in Signals : /\ inverse(s) \in Signals
                        /\ SignalEq(inverse(inverse(s)), s)
                        /\ ~SignalEq(inverse(s), s)
  /\ btPc = "constructed" =>
       /\ btReleased \in Signals /\ btPressed \in Signals
       /\ ~SignalEq(btPressed, btReleased)
       /\ SignalEq(inverse(btPressed), btReleased)

\* a button constructed with released_signal LOW
C14_Witness ==
  btPc = "constructed" /\ SignalEq(btReleased, LOW) /\ SignalEq(btPressed, HIGH)

\* C15: an instance that answers a level query has threshold > 0,
\* interval_ms > 0 and mutually exclusive pressed/released signals, because
\* any other configuration was rejected at construction.
C15_InvalidConfigRejected ==
  btOp \in {"isReleased", "isPressed"} =>
    /\ btThreshold > 0
    /\ btInterval > 0
    /\ ~SignalEq(btPressed, btReleased)

\* The index of the first read after the first one that differs from start
\* (0 if there is none), and the reads made after it
FirstLeft ==
  LET ks == {k \in 2..Len(chReads) : chReads[k] # chStart.value}
  IN IF ks = {} THEN 0 ELSE CHOOSE k \in ks : \A j \in ks : k <= j

ReadsAfterLeft ==
  IF FirstLeft = 0 THEN <<>>
  ELSE SubSeq(chReads, FirstLeft + 1, Len(chReads))

WindowSize == IF chThreshold > 0 THEN chThreshold ELSE 0

\* C16: isChanged returns False at once, without a sleep, if the first read
\* is not start; otherwise, after the first read that differs from start, it
\* makes at most `threshold` further reads, returns True at the first of
\* them that equals end, and False only after `threshold` reads that all
\* differ from end.
C16_IsChangedResult ==
  (chOp = "isChanged" /\ chReads # <<>>) =>
    IF chReads[1] # chStart.value
      THEN chPc = "returned" /\ ~chResult /\ Len(chReads) = 1 /\ chSlept = 0
      ELSE LET w == ReadsAfterLeft
           IN /\ Len(w) <= WindowSize
              /\ \A i \in 1..(Len(w) - 1) : w[i] # chEnd.value
              /\ chPc = "returned" =>
                   /\ FirstLeft > 0
                   /\ chResult <=> (w # <<>> /\ w[Len(w)] = chEnd.value)
                   /\ ~chResult => Len(w) = WindowSize

\* isChanged returned True at the second read of its window
C16_Witness ==
  /\ chOp = "isChanged" /\ chPc = "returned" /\ chResult
  /\ chReads[1] = chStart.value
  /\ Len(ReadsAfterLeft) = 2

\* C17: isChangedStably returns False if the first read is not start;
\* otherwise its result is the result of countFiltering(end, threshold) on
\* the reads made after the first read that differs from start, so True
\* only if the last `threshold` reads all equal end.
C17_StablyDelegates ==
  (chOp = "isChangedStably" /\ chPc = "returned") =>
    IF chReads[1] # chStart.value
      THEN ~chResult /\ Len(chReads) = 1
      ELSE LET w == ReadsAfterLeft
               run == CountFiltering(w, chEnd, chThreshold)
           IN /\ FirstLeft > 0
              /\ run.returned /\ run.reads = Len(w)
              /\ run.result = chResult
              /\ chResult =>
                   /\ Len(w) >= chThreshold
                   /\ \A i \in (Len(w) - chThreshold + 1)..Len(w) :
                        w[i] = chEnd.value

\* isChangedStably returned True after a read that restarted the count
C17_Witness ==
  /\ chOp = "isChangedStably" /\ chPc = "returned" /\ chResult
  /\ chThreshold >= 2
  /\ Len(ReadsAfterLeft) > chThreshold

\* the stream contains `threshold` consecutive samples that all equal the
\* target or all differ from it
Saturated ==
  \E i \in cfThreshold..Len(cfSamples) :
    \/ \A j \in (i - cfThreshold + 1)..i : cfSamples[j] = cfTarget.value
    \/ \A j \in (i - cfThreshold + 1)..i : cfSamples[j] # cfTarget.value

\* every sample differs from the one before it
Alternating ==
  \A i \in 2..Len(cfSamples) : cfSamples[i] # cfSamples[i - 1]

\* C18: countFiltering has returned only if the stream read contains
\* `threshold` consecutive samples all equal to or all different from the
\* target; as long as it does not, the loop takes another sample, however
\* many were read; once it does, the loop is over and the call returns.  On
\* an alternating stream with threshold >= 2 it is still in its loop.
C18_TerminatesIffSaturated ==
  /\ cfPc = "returned" => Saturated
  /\ cfPc = "loop" => (LoopContinues(cfCnt, cfThreshold) <=> ~Saturated)
  /\ (cfPc # "idle" /\ cfThreshold >= 2 /\ Alternating) =>
       cfPc = "loop" /\ LoopContinues(cfCnt, cfThreshold)

\* four alternating samples read with threshold >= 2, the loop goes on
C18_Witness ==
  /\ cfPc = "loop"
  /\ cfThreshold >= 2
  /\ Len(cfSamples) >= 4
  /\ Alternating

\* C19: a request that finds its pool exhausted (MachineTimer() without id
\* with all LIMIT ids allocated, IdManager.get() with `size` ids in use, a
\* StateMechanismButton constructor one of whose timers cannot get an id)
\* raises to the caller; the failing MachineTimer() and get() leave the pool
\* as it was, and the button constructor yields no instance.
C19_ExhaustionRaises ==
  tpLast.full =>
    /\ tpLast.raised
    /\ tpLast.op \in {"MachineTimer", "get"} => tpLast.same
    /\ tpLast.op = "Button" => tpBtn = "raised"

\* MachineTimer() without id was refused with all four ids allocated
C19_Witness ==
  /\ tpLast.op = "MachineTimer"
  /\ tpLast.full /\ tpLast.raised
  /\ AllAllocated(tpAlloc)

\* C20: every run of the background IRQ task (_irq_agentHandler, started for
\* a pin edge interrupt) ends with _last_state equal to the former
\* _current_state, _current_state BOUNCING, the one-shot debounce timer
\* armed and _irq_flag cleared.
C20_IrqTaskEffects ==
  [][agentTasks' < agentTasks =>
       /\ lastState' = currentState
       /\ currentState' = BOUNCING
       /\ timer'.task = "pending"
       /\ ~irqFlag']_vars

----------------------------------------------------------------------------
\* _debounce_handler: the sample matched neither signal level
Ambiguous(value) ==
  value # releasedSignal.value /\ value # pressedSignal.value

\* C21: every run of _debounce_handler reads the line exactly once; after
\* it _current_state is RELEASED if the sample equals the released level and
\* PRESSED if it equals the pressed level; _current_state is BOUNCING after
\* the run only if the sample matched neither level, and exactly in that
\* case the debounce timer is re-armed and no edge flag is set.
C21_DebounceSample ==
  [][dbReads' # dbReads =>
       /\ dbReads' = dbReads + 1
       /\ (line = releasedSignal.value => currentState' = RELEASED)
       /\ (line = pressedSignal.value => currentState' = PRESSED)
       /\ (currentState' = BOUNCING => Ambiguous(line))
       /\ (~Ambiguous(line) => timer' = timer)
       /\ (Ambiguous(line) =>
             /\ timer'.task = "pending"
             /\ toReleasedFlag' = toReleasedFlag
             /\ toPressedFlag' = toPressedFlag)]_vars

\* C21 witness: _debounce_handler has run on a line at the released level,
\* _current_state is RELEASED, the handler is in its flag hold and the
\* debounce timer is as the constructor left it
C21_Witness ==
  /\ dbReads > 0
  /\ lastState = BOUNCING
  /\ currentState = RELEASED
  /\ line = releasedSignal.value
  /\ dbHoldRel > 0
  /\ timer = TimerNew

----------------------------------------------------------------------------
\* a _debounce_handler task that will clear flag f within ms milliseconds
ClearsWithin(f, ms) ==
  \E i \in 1..Len(hdHolds) : hdHolds[i].flag = f /\ hdHolds[i].left <= ms

----------------------------------------------------------------------------
\* a step in which the debounce timer of the interrupt-driven button is
\* armed: a run of _irq_agentHandler, or a call of activate() whose outcome
\* differs from that of the call before it
ArmStep ==
  \/ agentTasks' < agentTasks
  \/ raised' # raised /\ ~deactivated'

\* C23: arming the one-shot debounce timer starts one countdown, the first
\* activation after construction included, and re-arming cancels the pending
\* countdown and restarts it: after every arming step one countdown of the
\* timer is pending.
C23_ArmStartsCountdown == [][ArmStep => timer'.task = "pending"]_vars

----------------------------------------------------------------------------
\* C24: no interrupt is lost by the hand-off of _irq_flag: whenever the pin
\* ISR has set the flag, the debounce timer is armed at some later point.
C24_NoInterruptLost == irqFlag ~> (timer.task = "pending")

----------------------------------------------------------------------------
\* C25: within one button instance the runs of _debounce_handler (its flag
\* hold included) and of _irq_agentHandler never overlap: a run of either
\* starts only when no _debounce_handler run is between its start and the
\* end of its hold.
C25_HandlersNeverOverlap ==
  [][(agentTasks' < agentTasks \/ dbReads' # dbReads) =>
       dbHoldRel + dbHoldPrs = 0]_vars

----------------------------------------------------------------------------
\* C26: the pin ISR _irq_handler sets _irq_flag and changes nothing else: a
\* level change of the line with the ISR registered leaves _irq_flag set and
\* _current_state, _last_state, the debounce timer, both edge flags and the
\* set of tasks as they were.
C26_IsrOnlySetsFlag ==
  [][line' # line =>
       /\ irqAttached => irqFlag'
       /\ UNCHANGED <<currentState, lastState, timer, toReleasedFlag,
                      toPressedFlag, irqAttached, irqLhActive, agentTasks,
                      dbStart, dbHoldRel, dbHoldPrs, dbReads>>]_vars

\* C26 witness: the ISR has run for a level change and only _irq_flag
\* differs from the state the constructor left
C26_Witness ==
  /\ nToReleased + nToPressed = 1
  /\ irqFlag
  /\ currentState = BOUNCING
  /\ lastState = BOUNCING
  /\ timer = TimerNew
  /\ ~toReleasedFlag /\ ~toPressedFlag
  /\ agentTasks = 0 /\ dbStart = 0 /\ dbHoldRel = 0 /\ dbHoldPrs = 0

----------------------------------------------------------------------------
\* isReleased() / isPressed() of the count-filtering button return True on
\* the stream the last call was offered
WouldReturnTrue(target) ==
  LET run == CountFiltering(btStream, target, btThreshold)
  IN run.returned /\ run.result

\* the stream is long enough for isReleased() and isPressed() to return
StreamDecides ==
  /\ CountFiltering(btStream, btReleased, btThreshold).returned
  /\ CountFiltering(btStream, btPressed, btThreshold).returned

\* C27: on every sample stream getState() of
\* CountFilteringImmediateDebounceButton agrees with isReleased() and
\* isPressed(): it returns RELEASED exactly when isReleased() would return
\* True and PRESSED exactly when isPressed() would return True (for a
\* threshold of at least 1).
C27_GetStateAgrees ==
  (btOp = "getState" /\ btThreshold > 0 /\ StreamDecides) =>
    /\ (btState = RELEASED) <=> WouldReturnTrue(btReleased)
    /\ (btState = PRESSED) <=> WouldReturnTrue(btPressed)

----------------------------------------------------------------------------
\* C28: isPressed() and isReleased() of ImmediateDebounceButton do one line
\* read and return True exactly when the level read is the pressed or the
\* released level; isToReleased() returns True exactly when the first read
\* is the pressed level and the read one interval_ms later is the released
\* level; no call ends with an exception.
C28_ImmediateQueries ==
  LET first == btStream[1]
      second == btStream[2]
  IN /\ (btOp = "Immediate.isReleased" =>
           /\ ~btRaised /\ btReads = 1
           /\ btResult <=> first = btReleased.value)
     /\ (btOp = "Immediate.isPressed" =>
           /\ ~btRaised /\ btReads = 1
           /\ btResult <=> first = btPressed.value)
     /\ (btOp = "Immediate.isToReleased" =>
           /\ ~btRaised
           /\ btResult <=> (first = btPressed.value
                            /\ second = btReleased.value))
     /\ (btOp = "Immediate.isToPressed" =>
           /\ ~btRaised
           /\ btResult <=> (first = btReleased.value
                            /\ second = btPressed.value))

----------------------------------------------------------------------------
\* the pin value a button state stands for
LevelOf(state) ==
  IF state = RELEASED THEN releasedSignal.value ELSE pressedSignal.value

\* the isToX call in progress returns in this step, and returns True
EdgeReturns == ckPhase' # "inner"
EdgeReturnsTrue ==
  /\ EdgeReturns
  /\ IF ckSite = "press0" THEN ckPressOk' ELSE ckSeen' = ckSeen + 1

\* the state an isToReleased (isToPressed) call at ckSite starts from and
\* the state it reports, as the claim words them
ClaimFrom == IF ckSite \in ReleaseSites THEN PRESSED ELSE RELEASED
ClaimTo == IF ckSite \in ReleaseSites THEN RELEASED ELSE PRESSED

\* C29: StateDebounceButton.isToReleased() first resolves _last_state with
\* one read if it is BOUNCING, then samples again only if _last_state is
\* PRESSED; it returns True only if _last_state was PRESSED and the read made
\* one interval_ms later gives the released level, after which _last_state is
\* RELEASED; in every other case it returns False.  isToPressed() is the
\* same with the two states exchanged.
C29_EdgeQuery ==
  [][/\ (ckSite \notin {"idle", "done"} /\ ckPhase = "call"
           /\ line' = line) =>
          /\ sbReads' = IF sbLast = BOUNCING THEN 1 ELSE 0
          /\ sbLast = BOUNCING => line = LevelOf(sbLast')
          /\ sbLast # BOUNCING => sbLast' = sbLast
          /\ (ckPhase' = "inner") <=> (sbLast' = ClaimFrom)
          /\ EdgeReturns => (~EdgeReturnsTrue /\ now' = now)
          /\ (EdgeReturns /\ ckSite \in DirectSites) =>
               (ckSite' = "done" /\ ckResult' = FALSE)
     /\ (ckPhase = "inner" /\ now' # now) =>
          /\ sbLast = ClaimFrom
          /\ now' >= now + IntervalMs
          /\ sbReads' = sbReads + 1
          /\ EdgeReturns
          /\ EdgeReturnsTrue <=> (line = LevelOf(ClaimTo))
          /\ EdgeReturnsTrue => sbLast' = ClaimTo
          /\ ckSite \in DirectSites =>
               (ckSite' = "done" /\ (ckResult' <=> EdgeReturnsTrue))]_vars

\* C29 witness: isToReleased(), called with _last_state BOUNCING, resolved
\* it to PRESSED with one read, read the released level one interval later
\* and returned True
C29_Witness ==
  /\ ckOp = "edge"
  /\ ckSite = "done"
  /\ ckRelSeen
  /\ ckResult = TRUE
  /\ sbReads = 2
  /\ sbLast = RELEASED
  /\ now >= IntervalMs

----------------------------------------------------------------------------
\* isToReleased reported the release before timeout_ms had elapsed since the
\* press edge
ReleaseSeenInTime == ckRelSeen /\ ckLastSeenAt < ckDeadline

\* C30: isClickedOnce(T), T > 0, once its initial isToPressed has returned
\* True, returns True if isToReleased reported the release before T ms had
\* elapsed, and in no other case.
C30_ClickOnceResult ==
  (ckSite = "done" /\ ckOp = "once" /\ ckTimeout > 0 /\ ckPressOk) =>
    (ckResult = TRUE <=> ReleaseSeenInTime)

----------------------------------------------------------------------------
\* C31: a caller that only polls StateDebounceButton.isToReleased()
\* eventually receives True after a stable pressed-to-released transition of
\* the line (the press lasted through MinHeld calls and the line then stays
\* released), whatever the level was at the first poll.
C31_PollerSeesRelease ==
  []((plFell /\ [](plLine = releasedSignal.value)) => <>plGot)

----------------------------------------------------------------------------
\* C32: after deactivate() the handler of the pair is not called or
\* dispatched until the next activate(), also when a listener evaluation
\* that was in progress at the deactivation returns True afterwards.
C32_NoHandleAfterDeactivate == ~lhLateHandle

----------------------------------------------------------------------------
\* the listen() tasks of the pair that have not returned
AliveLoops == {l \in PollIds : lhLoops[l].pc # "none"}

\* C33: whatever the sequence of activate() and deactivate() calls, at most
\* one listen() task of the pair is alive.
C33_OnePollLoop == Cardinality(AliveLoops) <= 1

----------------------------------------------------------------------------
\* C34: for every button class, after activate() every registered pair is
\* active with a listen() task running, and after deactivate() no registered
\* pair is active and isActive is False.
C34_ActivateStartsAll ==
  /\ baOp = "activate" =>
       \A i \in DOMAIN baPairs : baPairs[i].active /\ baPairs[i].loops >= 1
  /\ baOp = "deactivate" =>
       /\ ~baIsActive
       /\ \A i \in DOMAIN baPairs : ~baPairs[i].active

----------------------------------------------------------------------------
\* C35: an edge flag that a run of _debounce_handler set stays set until
\* isToReleased / isToPressed reads it or until 2 x interval_ms have passed
\* since it was set: the end of a hold never clears a flag that was set less
\* than 2 x interval_ms before.
C35_NoEarlyClear ==
  [][Len(hdHolds') < Len(hdHolds) =>
       /\ (hdRel /\ ~hdRel') => hdRelAge >= 2 * IntervalMs
       /\ (hdPrs /\ ~hdPrs') => hdPrsAge >= 2 * IntervalMs]_vars

----------------------------------------------------------------------------
\* a button whose two signals differ, constructed while the pin was at the
\* released level
BuiltReleased ==
  /\ ~SignalEq(smPressed, smReleased)
  /\ smLine0 = smReleased.value

\* C36: the press and release events of a StateMechanismButton alternate,
\* and the first event after construction is a press.
C36_EventsAlternate ==
  BuiltReleased =>
    \A i \in 1..Len(smEvents) :
      smEvents[i] = (IF i % 2 = 1 THEN "press" ELSE "release")

----------------------------------------------------------------------------
\* this step flags a release event that follows a press event
ReleaseAfterPress ==
  /\ Len(smEvents') = Len(smEvents) + 1
  /\ Len(smEvents) > 0
  /\ smEvents[Len(smEvents)] = "press"
  /\ smEvents'[Len(smEvents')] = "release"

\* C37: a debounced release that follows a debounced press either increments
\* _multi_click_pending_count or follows a setting of _on_long_press_flag
\* during that press, never neither and never both.
C37_PressClassified ==
  [][(BuiltReleased /\ ReleaseAfterPress) =>
       ((sm'.pending = sm.pending + 1) <=> ~smLongInPress)]_vars

----------------------------------------------------------------------------
\* C38: when the multi-click window closes, _finalized_click_count is the
\* number of short-press releases debounced since the previous close and
\* _multi_click_pending_count is 0; the first get_finalized_click_count()
\* after a close returns that count, and every later call until the next
\* close returns 0.
C38_FinalizedCount ==
  /\ [](smGets = 1 /\ smClosed => smGot = smCloseCount)
  /\ [](smGets > 1 => smGot = 0)
  /\ [][smCloseBit' # smCloseBit =>
          /\ sm'.finalized = smShorts
          /\ sm'.pending = 0]_vars

\* C38 witness: the window closed after two short-press releases and the
\* two calls made since returned 2 and then 0
C38_Witness ==
  /\ smClosed
  /\ smCloseCount = 2
  /\ sm.finalized = 2
  /\ smGets = 2
  /\ smGot = 0
  /\ ~sm.multiFlag

----------------------------------------------------------------------------
\* the live MachineTimer instances
LiveInst == {n \in Instances : tpInst[n].state = "live"}

\* C39: no two live MachineTimer instances hold the same timer id, and a
\* deinit() removes an entry of ALLOCATIONS only if the entry is the
\* instance being deinitialised.
C39_PoolExclusive ==
  /\ [](\A m, n \in LiveInst : m # n => tpInst[m].id # tpInst[n].id)
  /\ [][\A n \in LiveInst : tpInst'[n].state = "dead" =>
          \A i \in TimerIds :
            (tpAlloc[i] # 0 /\ tpAlloc'[i] = 0) => tpAlloc[i] = n]_vars

----------------------------------------------------------------------------
\* C40: acquire(waitflag # 0, timeout > 0) returns eventually, also when
\* the lock is never released.
C40_TimedAcquireReturns == (lkPc = "loop") ~> (lkPc = "done")

====
